---------------------------- MODULE Spec2Model ----------------------------
(***************************************************************************)
(* A model of the expression engine of ixmilia/calc: the lexer             *)
(* (Expression.tokenize), the shunting-yard converter                      *)
(* (Expression.shuntToRpn), the tree builder (Expression.rpnToExpression)  *)
(* and the evaluator (Expression.evaluate with the operator kernels of     *)
(* operator.ts and the built-in functions).                                *)
(*                                                                         *)
(* An input text is a sequence of one-character strings.  A JavaScript     *)
(* number is a record [k, n, d]: k = "fin" is the rational n/d in lowest   *)
(* terms (d > 0), which is exact for the small values the inputs produce;  *)
(* k = "nan", "inf", "ninf" are NaN, Infinity and -Infinity; k = "irr" is  *)
(* a finite value that is neither 0 nor 1 and is known only by its tag     *)
(* (pi, e, results of Math functions).  Negative zero is not told apart    *)
(* from zero.                                                              *)
(***************************************************************************)
EXTENDS Integers, Sequences, FiniteSets, TLC

VARIABLES
    expression,   \* the text handed to Expression.evaluate
    mode,         \* the Mode handed to Expression.evaluate
    variables,    \* the caller's variable map
    pc,           \* "tokenize", "shunt", "build", "evaluate", "done", "failed", "hung"
    lex,          \* the locals of tokenize
    shunt,        \* the locals of shuntToRpn
    build,        \* the locals of rpnToExpression
    tree,         \* what parse returned
    result,       \* what evaluate returned
    error         \* the message of the Error thrown, "" while none

vars == <<expression, mode, variables, pc, lex, shunt, build, tree, result, error>>

-----------------------------------------------------------------------------
(* Bounds of the model.                                                    *)

\* Largest integer literal of the generated arithmetic inputs.
MaxLiteral == 2

\* Largest numerator and denominator the model computes with exactly; the
\* result of arithmetic on a larger finite number is an opaque finite value.
MaxExact == 30000

\* Depth of nested evaluate calls at which the model reports the engine's
\* stack as exhausted (a RangeError); every evaluation that ends needs less.
MaxCallDepth == 24

-----------------------------------------------------------------------------
(* JavaScript numbers.                                                     *)

Abs(x) == IF x < 0 THEN -x ELSE x

Sign(x) == IF x < 0 THEN -1 ELSE IF x > 0 THEN 1 ELSE 0

RECURSIVE IntGcd(_, _)
IntGcd(a, b) == IF b = 0 THEN a ELSE IntGcd(b, a % b)

NaN == [k |-> "nan", n |-> 0, d |-> 1]
Infinity == [k |-> "inf", n |-> 0, d |-> 1]
NegInfinity == [k |-> "ninf", n |-> 0, d |-> 1]
Irr(tag) == [k |-> "irr", n |-> 0, d |-> 1, tag |-> tag]

\* The finite number n/d (d # 0), in lowest terms with d > 0.
Fin(n, d) ==
    LET g == IntGcd(Abs(n), Abs(d))
        s == IF d < 0 THEN -1 ELSE 1
    IN  [k |-> "fin", n |-> (s * n) \div g, d |-> (s * d) \div g]

Num(i) == [k |-> "fin", n |-> i, d |-> 1]

IsFin(a) == a.k = "fin"
IsNaN(a) == a.k = "nan"
IsIrr(a) == a.k = "irr"
IsInf(a) == a.k \in {"inf", "ninf"}

\* A number the model does not compute with exactly.
Opaque(a) == IsIrr(a) \/ (IsFin(a) /\ (Abs(a.n) > MaxExact \/ a.d > MaxExact))

\* a === 0, a === 1 and a === b on numbers: NaN equals nothing.
JIsZero(a) == IsFin(a) /\ a.n = 0
JIsOne(a) == IsFin(a) /\ a.n = 1 /\ a.d = 1
JEq(a, b) == ~IsNaN(a) /\ ~IsNaN(b) /\ a = b

\* Math.sign as an integer (0 for NaN, which Math.sign maps to NaN).
JSignInt(a) ==
    CASE a.k = "fin" -> Sign(a.n)
      [] a.k = "inf" -> 1
      [] a.k = "ninf" -> -1
      [] a.k = "irr" -> 1
      [] OTHER -> 0

DigitChar(i) == <<"0", "1", "2", "3", "4", "5", "6", "7", "8", "9">>[i + 1]

\* Number.prototype.toString of a non-negative integer, then of any integer.
RECURSIVE NatStr(_)
NatStr(i) == IF i < 10 THEN DigitChar(i) ELSE NatStr(i \div 10) \o DigitChar(i % 10)

IntStr(i) == IF i < 0 THEN "-" \o NatStr(-i) ELSE NatStr(i)

\* The tag that names a number inside the tag of an opaque value.
NumTag(a) ==
    CASE a.k = "fin" -> IF a.d = 1 THEN IntStr(a.n) ELSE IntStr(a.n) \o ":" \o IntStr(a.d)
      [] a.k = "irr" -> a.tag
      [] a.k = "inf" -> "Infinity"
      [] a.k = "ninf" -> "-Infinity"
      [] OTHER -> "NaN"

\* Number.prototype.toString as a sequence of characters. A finite number
\* prints as its decimal expansion when that terminates; the digits of any
\* other finite number are not computed and stand as Unprintable.
RECURSIVE NatChars(_)
NatChars(i) ==
    IF i < 10 THEN <<DigitChar(i)>> ELSE Append(NatChars(i \div 10), DigitChar(i % 10))

RECURSIVE FractionChars(_, _)
FractionChars(r, d) ==
    IF r = 0 THEN <<>>
    ELSE <<DigitChar((10 * r) \div d)>> \o FractionChars((10 * r) % d, d)

Unprintable == <<"#">>

NumberToString(a) ==
    LET RECURSIVE StripFactor(_, _)
        StripFactor(d, p) == IF d % p = 0 THEN StripFactor(d \div p, p) ELSE d
        Terminating(d) == StripFactor(StripFactor(d, 2), 5) = 1
    IN
    CASE a.k = "nan" -> <<"N", "a", "N">>
      [] a.k = "inf" -> <<"I", "n", "f", "i", "n", "i", "t", "y">>
      [] a.k = "ninf" -> <<"-", "I", "n", "f", "i", "n", "i", "t", "y">>
      [] a.k = "fin" /\ ~Opaque(a) /\ Terminating(a.d) ->
            (IF a.n < 0 THEN <<"-">> ELSE <<>>)
            \o NatChars(Abs(a.n) \div a.d)
            \o (IF a.d = 1 THEN <<>>
                ELSE <<".">> \o FractionChars(Abs(a.n) % a.d, a.d))
      [] OTHER -> Unprintable

JNeg(a) ==
    CASE a.k = "fin" -> Fin(-a.n, a.d)
      [] a.k = "inf" -> NegInfinity
      [] a.k = "ninf" -> Infinity
      [] a.k = "irr" -> Irr("-" \o a.tag)
      [] OTHER -> NaN

JAbs(a) ==
    CASE a.k = "fin" -> Fin(Abs(a.n), a.d)
      [] a.k = "ninf" -> Infinity
      [] OTHER -> a

\* Math.trunc
JTrunc(a) ==
    IF a.k = "fin" THEN Num(Sign(a.n) * (Abs(a.n) \div a.d)) ELSE a

JAdd(a, b) ==
    CASE IsNaN(a) \/ IsNaN(b) -> NaN
      [] IsInf(a) /\ IsInf(b) -> IF a = b THEN a ELSE NaN
      [] IsInf(a) -> a
      [] IsInf(b) -> b
      [] Opaque(a) \/ Opaque(b) ->
            IF JIsZero(a) THEN b
            ELSE IF JIsZero(b) THEN a
            ELSE Irr("(" \o NumTag(a) \o "+" \o NumTag(b) \o ")")
      [] OTHER -> Fin(a.n * b.d + b.n * a.d, a.d * b.d)

JSub(a, b) == JAdd(a, JNeg(b))

JMul(a, b) ==
    CASE IsNaN(a) \/ IsNaN(b) -> NaN
      [] IsInf(a) \/ IsInf(b) ->
            IF JIsZero(a) \/ JIsZero(b) THEN NaN
            ELSE IF JSignInt(a) * JSignInt(b) > 0 THEN Infinity ELSE NegInfinity
      [] Opaque(a) \/ Opaque(b) ->
            IF JIsZero(a) \/ JIsZero(b) THEN Num(0)
            ELSE IF JIsOne(a) THEN b
            ELSE IF JIsOne(b) THEN a
            ELSE Irr("(" \o NumTag(a) \o "*" \o NumTag(b) \o ")")
      [] OTHER -> Fin(a.n * b.n, a.d * b.d)

JDiv(a, b) ==
    CASE IsNaN(a) \/ IsNaN(b) -> NaN
      [] IsInf(a) /\ IsInf(b) -> NaN
      [] IsInf(a) -> IF JSignInt(a) * JSignInt(b) < 0 THEN NegInfinity ELSE Infinity
      [] IsInf(b) -> Num(0)
      [] JIsZero(b) ->
            IF JIsZero(a) THEN NaN
            ELSE IF JSignInt(a) < 0 THEN NegInfinity ELSE Infinity
      [] Opaque(a) \/ Opaque(b) ->
            IF JIsZero(a) THEN Num(0)
            ELSE IF JIsOne(b) THEN a
            ELSE Irr("(" \o NumTag(a) \o "/" \o NumTag(b) \o ")")
      [] OTHER -> Fin(a.n * b.d, a.d * b.n)

\* a % b: the remainder takes the sign of the dividend.
JMod(a, b) ==
    CASE IsNaN(a) \/ IsNaN(b) \/ IsInf(a) \/ JIsZero(b) -> NaN
      [] IsInf(b) -> a
      [] Opaque(a) \/ Opaque(b) -> Irr("(" \o NumTag(a) \o "%" \o NumTag(b) \o ")")
      [] OTHER -> JSub(a, JMul(b, JTrunc(JDiv(a, b))))

\* b to the power x (x >= 0) by repeated multiplication, given up once the
\* product has left the exact range.
RECURSIVE PowLoop(_, _, _)
PowLoop(b, x, product) ==
    IF x = 0 \/ Abs(product) > MaxExact THEN product
    ELSE PowLoop(b, x - 1, product * b)

IntPow(b, x) ==
    CASE x = 0 -> 1
      [] b \in {0, 1} -> b
      [] b = -1 -> IF x % 2 = 0 THEN 1 ELSE -1
      [] OTHER -> PowLoop(b, x, 1)

\* The quotient n/d of two powers, opaque when one of them left the exact range.
PowResult(n, d, tag) ==
    IF Abs(n) > MaxExact \/ Abs(d) > MaxExact THEN Irr(tag) ELSE Fin(n, d)

\* a ** b
JPow(a, b) ==
    CASE IsNaN(b) -> NaN
      [] JIsZero(b) -> Num(1)
      [] IsNaN(a) -> NaN
      [] IsFin(a) /\ IsFin(b) /\ b.d = 1 /\ ~Opaque(a) ->
            LET tag == "(" \o NumTag(a) \o "^" \o NumTag(b) \o ")"
            IN  IF b.n > 0 THEN PowResult(IntPow(a.n, b.n), IntPow(a.d, b.n), tag)
                ELSE IF a.n = 0 THEN Infinity
                ELSE PowResult(IntPow(a.d, -b.n), IntPow(a.n, -b.n), tag)
      [] IsFin(a) /\ IsFin(b) /\ b.d = 1 -> Irr("(" \o NumTag(a) \o "^" \o NumTag(b) \o ")")
      [] IsFin(a) /\ IsFin(b) /\ JIsOne(a) -> a
      [] IsFin(a) /\ IsFin(b) /\ JIsZero(a) -> IF b.n > 0 THEN a ELSE Infinity
      [] IsFin(a) /\ IsFin(b) /\ a.n < 0 -> NaN
      [] IsInf(a) \/ IsInf(b) -> IF JSignInt(b) > 0 THEN Infinity ELSE Num(0)
      [] OTHER -> Irr("(" \o NumTag(a) \o "^" \o NumTag(b) \o ")")

-----------------------------------------------------------------------------
(* Tokens (token.ts).                                                      *)

IntegerToken(text, position, value) ==
    [type |-> "integer", text |-> text, position |-> position, value |-> value]

FloatToken(text, position, value) ==
    [type |-> "float", text |-> text, position |-> position, value |-> value]

IdentifierToken(value, position) ==
    [type |-> "identifier", text |-> value, position |-> position]

OperatorToken(value, position, associativity, precedence) ==
    [type |-> "operator", text |-> value, position |-> position,
     associativity |-> associativity, precedence |-> precedence]

PunctuationToken(symbol, position) ==
    [type |-> "punctuation", text |-> symbol, position |-> position, symbol |-> symbol]

FunctionCallToken(identifier, argumentCount) ==
    [type |-> "function", text |-> identifier.text, position |-> identifier.position,
     identifier |-> identifier, argumentCount |-> argumentCount]

-----------------------------------------------------------------------------
(* Character classes and the operator table of the lexer.                  *)

\* The symbols of Operators.WellKnownOperators, in its order.
WellKnownOperators == <<"~", "!", "+", "-", "*", "/", "^">>

\* Operator.minimumArgumentCount = maximumArgumentCount of each symbol.
ArgumentCount(symbol) == IF symbol \in {"~", "!"} THEN 1 ELSE 2

isWhitespace(c) == c \in {" ", "\t", "\n", "\r"}

isOperator(c) == \E k \in DOMAIN WellKnownOperators : WellKnownOperators[k] = c

isInfixOperator(c) ==
    \E k \in DOMAIN WellKnownOperators :
        WellKnownOperators[k] = c /\ ArgumentCount(WellKnownOperators[k]) = 2

isDigit(c) == c \in {"0", "1", "2", "3", "4", "5", "6", "7", "8", "9"}

isNumberStart(c) == isDigit(c) \/ c = "."

isIdentStart(c) ==
    c \in {"a", "b", "c", "d", "e", "f", "g", "h", "i", "j", "k", "l", "m",
           "n", "o", "p", "q", "r", "s", "t", "u", "v", "w", "x", "y", "z",
           "A", "B", "C", "D", "E", "F", "G", "H", "I", "J", "K", "L", "M",
           "N", "O", "P", "Q", "R", "S", "T", "U", "V", "W", "X", "Y", "Z",
           "_"}

isIdentContinue(c) == isIdentStart(c) \/ isDigit(c)

isPunctuation(c) == c \in {"(", ")", ","}

associativity(o) == IF o \in {"~", "^"} THEN "right" ELSE "left"

\* precedence throws "Unknown operator" for any other symbol; the lexer calls
\* it only on symbols of WellKnownOperators.
precedence(o) ==
    CASE o = "!" -> 6
      [] o = "~" -> 5
      [] o = "^" -> 4
      [] o \in {"*", "/"} -> 3
      [] o \in {"+", "-"} -> 2

-----------------------------------------------------------------------------
(* parseInt and parseFloat on the texts the number state can collect:      *)
(* digits with at most one '.', then at most one e/E, at most one sign     *)
(* right after it, and digits.                                             *)

DigitValue(c) ==
    CASE c = "0" -> 0 [] c = "1" -> 1 [] c = "2" -> 2 [] c = "3" -> 3
      [] c = "4" -> 4 [] c = "5" -> 5 [] c = "6" -> 6 [] c = "7" -> 7
      [] c = "8" -> 8 [] c = "9" -> 9

\* The string of a sequence of characters.
RECURSIVE Str(_)
Str(cs) == IF cs = <<>> THEN "" ELSE Head(cs) \o Str(Tail(cs))

\* current.match(/^\d+$/)
AllDigits(cs) == cs # <<>> /\ \A k \in DOMAIN cs : isDigit(cs[k])

\* The value of a sequence of digits (0 for none).
RECURSIVE DigitsValue(_)
DigitsValue(cs) ==
    IF cs = <<>> THEN 0
    ELSE 10 * DigitsValue(SubSeq(cs, 1, Len(cs) - 1)) + DigitValue(cs[Len(cs)])

parseInt(cs) == Num(DigitsValue(cs))

\* The least index of cs holding a character of set, or Len(cs) + 1.
FirstIn(cs, set) ==
    IF \E k \in DOMAIN cs : cs[k] \in set
    THEN CHOOSE k \in DOMAIN cs : cs[k] \in set /\ \A j \in 1..(k - 1) : cs[j] \notin set
    ELSE Len(cs) + 1

\* The number of mantissa digits parseFloat reads exactly; a longer mantissa
\* gives an opaque finite value.
MaxMantissa == 9

RECURSIVE TenTo(_)
TenTo(k) == IF k = 0 THEN 1 ELSE 10 * TenTo(k - 1)

\* parseFloat reads the longest prefix that is a number: an exponent marker
\* that no digit follows is not part of it, and a text without a digit in
\* its mantissa is NaN.
parseFloat(cs) ==
    LET ePos == FirstIn(cs, {"e", "E"})
        mantissa == SubSeq(cs, 1, ePos - 1)
        dot == FirstIn(mantissa, {"."})
        whole == SubSeq(mantissa, 1, dot - 1)
        fraction == SubSeq(mantissa, dot + 1, Len(mantissa))
        rest == SubSeq(cs, ePos + 1, Len(cs))
        negative == rest # <<>> /\ rest[1] = "-"
        signed == rest # <<>> /\ rest[1] \in {"+", "-"}
        expDigits == IF signed THEN Tail(rest) ELSE rest
        exponent == DigitsValue(expDigits)
        digits == IF whole = <<"0">> THEN fraction ELSE whole \o fraction
        m == IF Len(digits) <= MaxMantissa
             THEN Fin(DigitsValue(whole \o fraction), TenTo(Len(fraction)))
             ELSE Irr(Str(mantissa))
        scale == JPow(Num(10), Num(exponent))
    IN  IF whole \o fraction = <<>> THEN NaN
        ELSE IF negative THEN JDiv(m, scale) ELSE JMul(m, scale)

-----------------------------------------------------------------------------
(* Expression.tokenize, one character at a time.                           *)

\* The locals of tokenize before the loop.
TokenizeInit ==
    [state |-> "NONE", current |-> <<>>, start |-> 0, minusIsUnary |-> TRUE,
     seenDecimal |-> FALSE, seenE |-> FALSE, seenSign |-> FALSE,
     tokens |-> <<>>, i |-> 0, error |-> ""]

\* A finishToken that emits an Integer whenever the value of the text is a
\* whole number, whatever its form: Number.isInteger(parseFloat(current)).
finishTokenByValue(lx, position, kind) ==
    IF kind = "identifier"
    THEN [lx EXCEPT !.minusIsUnary = FALSE,
                    !.tokens = Append(@, IdentifierToken(Str(lx.current), position))]
    ELSE [lx EXCEPT !.minusIsUnary = FALSE,
                    !.tokens = Append(@,
                        IF IsFin(parseFloat(lx.current)) /\ parseFloat(lx.current).d = 1
                        THEN IntegerToken(Str(lx.current), position, parseFloat(lx.current))
                        ELSE FloatToken(Str(lx.current), position, parseFloat(lx.current)))]

\* finishToken(position, kind)
finishToken(lx, position, kind) ==
    IF kind = "identifier"
    THEN [lx EXCEPT !.minusIsUnary = FALSE,
                    !.tokens = Append(@, IdentifierToken(Str(lx.current), position))]
    ELSE [lx EXCEPT !.minusIsUnary = FALSE,
                    !.tokens = Append(@,
                        IF AllDigits(lx.current)
                        THEN IntegerToken(Str(lx.current), position, parseInt(lx.current))
                        ELSE FloatToken(Str(lx.current), position, parseFloat(lx.current)))]

\* An operator read in state NONE: '~' gets precedence 5, every other
\* operator precedence 0.
EmitOperatorNone(lx, c) ==
    IF c = "-" /\ lx.minusIsUnary
    THEN [lx EXCEPT !.tokens = Append(@, OperatorToken("~", lx.i, "right", 5))]
    ELSE [lx EXCEPT !.tokens = Append(@,
                        OperatorToken(c, lx.i, IF c = "^" THEN "right" ELSE "left", 0)),
                    !.minusIsUnary = IF isInfixOperator(c) THEN TRUE ELSE @]

\* An operator that ends a number or an identifier: precedence and
\* associativity come from the table.
EmitOperatorAfter(lx, c) ==
    IF c = "-" /\ lx.minusIsUnary
    THEN [lx EXCEPT !.tokens = Append(@,
                        OperatorToken("~", lx.i, associativity("~"), precedence("~"))),
                    !.state = "NONE"]
    ELSE [lx EXCEPT !.tokens = Append(@,
                        OperatorToken(c, lx.i, associativity(c), precedence(c))),
                    !.minusIsUnary = IF isInfixOperator(c) THEN TRUE ELSE @,
                    !.state = "NONE"]

\* A punctuation after which a minus is unary, a closing parenthesis
\* included.
EmitPunctuationAlwaysUnary(lx, c) ==
    [lx EXCEPT !.tokens = Append(@, PunctuationToken(c, lx.i)),
               !.minusIsUnary = TRUE,
               !.state = "NONE"]

EmitPunctuation(lx, c) ==
    [lx EXCEPT !.tokens = Append(@, PunctuationToken(c, lx.i)),
               !.minusIsUnary = (c # ")"),
               !.state = "NONE"]

Unexpected(lx, message) == [lx EXCEPT !.error = message]

\* case STATE.NONE
TokenizeNone(lx, c) ==
    CASE isWhitespace(c) -> lx
      [] isOperator(c) -> EmitOperatorNone(lx, c)
      [] isPunctuation(c) -> EmitPunctuation(lx, c)
      [] isNumberStart(c) ->
            [lx EXCEPT !.current = <<c>>, !.start = lx.i, !.state = "NUMBER",
                       !.seenDecimal = (c = "."), !.seenE = FALSE, !.seenSign = FALSE]
      [] isIdentStart(c) ->
            [lx EXCEPT !.current = <<c>>, !.start = lx.i, !.state = "IDENTIFIER"]
      [] OTHER -> Unexpected(lx, "Unexpected character")

\* case STATE.NUMBER: the chain of else-ifs has no final else, so a character
\* that matches no branch leaves every local as it was.
TokenizeNumber(lx, c) ==
    CASE isDigit(c) ->
            [lx EXCEPT !.current = Append(@, c), !.seenSign = lx.seenE]
      [] isWhitespace(c) ->
            [finishToken(lx, lx.start, "number") EXCEPT !.state = "NONE"]
      [] isPunctuation(c) ->
            EmitPunctuation(finishToken(lx, lx.start, "number"), c)
      [] c = "." ->
            IF ~lx.seenDecimal /\ ~lx.seenE
            THEN [lx EXCEPT !.current = Append(@, c), !.seenDecimal = TRUE]
            ELSE Unexpected(lx, "Unexpected character")
      [] c \in {"e", "E"} /\ ~lx.seenE ->
            [lx EXCEPT !.current = Append(@, c), !.seenE = TRUE, !.seenSign = FALSE]
      [] c \in {"-", "+"} /\ lx.seenE /\ ~lx.seenSign ->
            [lx EXCEPT !.current = Append(@, c), !.seenSign = TRUE]
      [] isOperator(c) ->
            EmitOperatorAfter(finishToken(lx, lx.start, "number"), c)
      [] OTHER -> lx

\* case STATE.IDENTIFIER
TokenizeIdentifier(lx, c) ==
    CASE isIdentContinue(c) -> [lx EXCEPT !.current = Append(@, c)]
      [] isWhitespace(c) ->
            [finishToken(lx, lx.start, "identifier") EXCEPT !.state = "NONE"]
      [] isOperator(c) ->
            EmitOperatorAfter(finishToken(lx, lx.start, "identifier"), c)
      [] isPunctuation(c) ->
            EmitPunctuation(finishToken(lx, lx.start, "identifier"), c)
      [] OTHER -> Unexpected(lx, "Unexpected identifier character")

\* One turn of the loop on character c = expression[i] (i counted from 0).
TokenizeChar(lx, c) ==
    LET next == CASE lx.state = "NONE" -> TokenizeNone(lx, c)
                  [] lx.state = "NUMBER" -> TokenizeNumber(lx, c)
                  [] lx.state = "IDENTIFIER" -> TokenizeIdentifier(lx, c)
    IN  [next EXCEPT !.i = lx.i + 1]

\* After the loop: the token in progress is flushed.
TokenizeEnd(lx, length) ==
    IF lx.state # "NONE"
    THEN finishToken(lx, length - 1,
                     IF lx.state = "NUMBER" THEN "number" ELSE "identifier")
    ELSE lx

\* tokenize(text): the locals when it returns, or when it throws.
RECURSIVE TokenizeFrom(_, _)
TokenizeFrom(lx, text) ==
    IF lx.error # "" THEN lx
    ELSE IF lx.i >= Len(text) THEN TokenizeEnd(lx, Len(text))
    ELSE TokenizeFrom(TokenizeChar(lx, text[lx.i + 1]), text)

tokenize(text) == TokenizeFrom(TokenizeInit, text)

-----------------------------------------------------------------------------
(* Expression nodes.                                                       *)

\* What Array.pop returns on an empty array, and any missing property.
Undefined == [type |-> "undefined"]

\* An Error thrown, and a loop that never ends, in place of a value.
Thrown(message) == [type |-> "error", message |-> message]
Hang == [type |-> "hang"]

IsAbrupt(e) == e.type \in {"error", "hang"}

IntegerExpression(value) == [type |-> "integer", value |-> JTrunc(value)]

FloatExpression(value) == [type |-> "float", value |-> value]

RatioExpression(numerator, denominator) ==
    [type |-> "ratio", numerator |-> JTrunc(numerator),
     denominator |-> JTrunc(denominator)]

VariableExpression(name) == [type |-> "variable", name |-> name]

UnaryExpression(operand, operator) ==
    [type |-> "unary", operand |-> operand, operator |-> operator]

BinaryExpression(left, right, operator) ==
    [type |-> "binary", left |-> left, right |-> right, operator |-> operator]

\* minimumArgumentCount and maximumArgumentCount of Expression.defaultFunctions.
FunctionArity ==
    [acos |-> 1, asin |-> 1, atan |-> 1, atan2 |-> 2, cos |-> 1, diff |-> 2,
     ln |-> 1, log |-> 2, max |-> 2, min |-> 2, sin |-> 1, sum |-> 4, tan |-> 1]

\* The names every JavaScript object inherits from Object.prototype: a lookup
\* of one of them in the function table finds a value that is no
\* FunctionDefinition, whose argument counts are undefined.
InheritedNames ==
    {"constructor", "toString", "valueOf", "hasOwnProperty", "isPrototypeOf",
     "propertyIsEnumerable", "toLocaleString", "__proto__",
     "__defineGetter__", "__defineSetter__", "__lookupGetter__", "__lookupSetter__"}

\* new FunctionCallExpression(func, args): the node, or the Error thrown.
FunctionCallExpression(func, args) ==
    LET name == func.identifier.text
    IN  IF name \in DOMAIN FunctionArity
        THEN IF Len(args) < FunctionArity[name] \/ Len(args) > FunctionArity[name]
             THEN Thrown("function requires between min and max arguments")
             ELSE [type |-> "functionCall", func |-> func, args |-> args]
        ELSE IF name \in InheritedNames
        THEN [type |-> "functionCall", func |-> func, args |-> args]
        ELSE Thrown("function not found")

isInteger(e) == e.type = "integer"
isFloat(e) == e.type = "float"
isRatio(e) == e.type = "ratio"
isNumeric(e) == isInteger(e) \/ isFloat(e) \/ isRatio(e)

-----------------------------------------------------------------------------
(* Expression.shuntToRpn, one token at a time.                             *)

ShuntInit ==
    [argCountStack |-> <<>>, outputQueue |-> <<>>, opStack |-> <<>>,
     i |-> 0, error |-> ""]

Top(stack) == stack[Len(stack)]
Pop(stack) == SubSeq(stack, 1, Len(stack) - 1)

\* The while loop of the operator case: it compares the precedence and the
\* associativity the tokens carry.
RECURSIVE PopOperators(_, _)
PopOperators(sh, opToken) ==
    IF /\ Len(sh.opStack) > 0
       /\ Top(sh.opStack).type = "operator"
       /\ \/ opToken.associativity = "left"
             /\ opToken.precedence <= Top(sh.opStack).precedence
          \/ opToken.precedence < Top(sh.opStack).precedence
    THEN PopOperators([sh EXCEPT !.outputQueue = Append(@, Top(sh.opStack)),
                                 !.opStack = Pop(@)], opToken)
    ELSE sh

ShuntOperator(sh, opToken) ==
    LET popped == PopOperators(sh, opToken)
    IN  [popped EXCEPT !.opStack = Append(@, opToken)]

\* case '(': after an identifier it opens a call, and the identifier moves
\* from the output queue to the operator stack.
ShuntOpen(sh, tokens, puncToken) ==
    IF sh.i >= 1 /\ tokens[sh.i].type = "identifier"
    THEN [sh EXCEPT !.outputQueue = Pop(@),
                    !.opStack = Append(@, Top(sh.outputQueue)),
                    !.argCountStack = Append(@, Num(0))]
    ELSE [sh EXCEPT !.opStack = Append(@, puncToken)]

\* argCountStack.pop()! + 1: undefined + 1 is NaN.
PoppedCountPlusOne(sh) ==
    IF sh.argCountStack = <<>> THEN NaN ELSE JAdd(Top(sh.argCountStack), Num(1))

PopCount(sh) == IF sh.argCountStack = <<>> THEN <<>> ELSE Pop(sh.argCountStack)

\* case ')': the while (true) loop.
RECURSIVE ShuntClose(_, _)
ShuntClose(sh, tokens) ==
    IF Len(sh.opStack) = 0 THEN [sh EXCEPT !.error = "Mismatched parentheses"]
    ELSE LET op == Top(sh.opStack)
             rest == [sh EXCEPT !.opStack = Pop(@)]
             emptyCall == /\ sh.i >= 2
                          /\ tokens[sh.i].type = "punctuation"
                          /\ tokens[sh.i].symbol = "("
                          /\ tokens[sh.i - 1].type = "identifier"
             argCount == IF emptyCall THEN Num(0) ELSE PoppedCountPlusOne(sh)
         IN  CASE op.type = "operator" ->
                    ShuntClose([rest EXCEPT !.outputQueue = Append(@, op)], tokens)
               [] op.type = "identifier" ->
                    [rest EXCEPT !.argCountStack = PopCount(sh),
                                 !.outputQueue = Append(@, FunctionCallToken(op, argCount))]
               [] op.type = "punctuation" /\ op.symbol = "(" -> rest
               [] OTHER -> ShuntClose(rest, tokens)

\* case ',': reading .type of the top of an empty stack throws a TypeError.
RECURSIVE ShuntComma(_)
ShuntComma(sh) ==
    IF Len(sh.opStack) = 0
    THEN [sh EXCEPT !.error = "TypeError: Cannot read properties of undefined"]
    ELSE IF Top(sh.opStack).type # "identifier"
    THEN ShuntComma([sh EXCEPT !.outputQueue = Append(@, Top(sh.opStack)),
                               !.opStack = Pop(@)])
    ELSE [sh EXCEPT !.argCountStack = Append(PopCount(sh), PoppedCountPlusOne(sh))]

\* One turn of the loop on token = tokens[i] (i counted from 0).
ShuntToken(sh, tokens) ==
    LET token == tokens[sh.i + 1]
        next ==
            CASE token.type \in {"identifier", "integer", "float"} ->
                    [sh EXCEPT !.outputQueue = Append(@, token)]
              [] token.type = "operator" -> ShuntOperator(sh, token)
              [] token.type = "punctuation" /\ token.symbol = "(" ->
                    ShuntOpen(sh, tokens, token)
              [] token.type = "punctuation" /\ token.symbol = ")" ->
                    ShuntClose(sh, tokens)
              [] token.type = "punctuation" /\ token.symbol = "," -> ShuntComma(sh)
              [] token.type = "punctuation" ->
                    [sh EXCEPT !.error = "Unexpected punctuation"]
              [] OTHER -> [sh EXCEPT !.error = "Unexpected token"]
    IN  [next EXCEPT !.i = sh.i + 1]

\* The loop after the tokens: no token has the type 'lparen' or 'rparen', so
\* everything left on the operator stack goes to the output queue.
RECURSIVE ShuntDrain(_)
ShuntDrain(sh) ==
    IF Len(sh.opStack) = 0 THEN sh
    ELSE LET op == Top(sh.opStack)
         IN  IF op.type \in {"lparen", "rparen"}
             THEN [sh EXCEPT !.opStack = Pop(@), !.error = "Mismatched parentheses"]
             ELSE ShuntDrain([sh EXCEPT !.opStack = Pop(@),
                                        !.outputQueue = Append(@, op)])

RECURSIVE ShuntFrom(_, _)
ShuntFrom(sh, tokens) ==
    IF sh.error # "" THEN sh
    ELSE IF sh.i >= Len(tokens) THEN ShuntDrain(sh)
    ELSE ShuntFrom(ShuntToken(sh, tokens), tokens)

shuntToRpn(tokens) == ShuntFrom(ShuntInit, tokens)

-----------------------------------------------------------------------------
(* Expression.rpnToExpression, one token at a time.                        *)

BuildInit == [stack |-> <<>>, i |-> 0, error |-> ""]

operandCount(op) == IF op \in {"+", "-", "*", "/", "^"} THEN 2 ELSE 1

\* stack.pop()! count times: the values popped, first popped first, and the
\* stack left.  A pop of the empty stack gives undefined.
RECURSIVE PopValues(_, _)
PopValues(stack, count) ==
    IF count = 0 THEN [popped |-> <<>>, stack |-> stack]
    ELSE LET value == IF stack = <<>> THEN Undefined ELSE Top(stack)
             left == IF stack = <<>> THEN <<>> ELSE Pop(stack)
             more == PopValues(left, count - 1)
         IN  [popped |-> <<value>> \o more.popped, stack |-> more.stack]

Reverse(s) == [k \in 1..Len(s) |-> s[Len(s) + 1 - k]]

\* The iterations of for (i = 0; i < argumentCount; i++): none when the
\* count is NaN.
LoopCount(count) == IF IsFin(count) /\ count.n > 0 THEN count.n ELSE 0

BuildToken(bd, rpn) ==
    LET token == rpn[bd.i + 1]
        next ==
            CASE token.type = "function" ->
                    LET p == PopValues(bd.stack, LoopCount(token.argumentCount))
                        call == FunctionCallExpression(token, Reverse(p.popped))
                    IN  IF IsAbrupt(call) THEN [bd EXCEPT !.error = call.message]
                        ELSE [bd EXCEPT !.stack = Append(p.stack, call)]
              [] token.type = "identifier" ->
                    [bd EXCEPT !.stack = Append(@, VariableExpression(token.text))]
              [] token.type = "integer" ->
                    [bd EXCEPT !.stack = Append(@, IntegerExpression(token.value))]
              [] token.type = "float" ->
                    [bd EXCEPT !.stack = Append(@, FloatExpression(token.value))]
              [] token.type = "operator" ->
                    LET p == PopValues(bd.stack, operandCount(token.text))
                    IN  IF operandCount(token.text) = 1
                        THEN [bd EXCEPT !.stack =
                                Append(p.stack, UnaryExpression(p.popped[1], token.text))]
                        ELSE [bd EXCEPT !.stack =
                                Append(p.stack,
                                       BinaryExpression(p.popped[2], p.popped[1], token.text))]
              [] OTHER -> [bd EXCEPT !.error = "Unexpected token"]
    IN  [next EXCEPT !.i = bd.i + 1]

\* After the loop: exactly one value must be left.
BuildEnd(bd) ==
    IF Len(bd.stack) # 1 THEN [bd EXCEPT !.error = "Unbalanced stack"] ELSE bd

RECURSIVE BuildFrom(_, _)
BuildFrom(bd, rpn) ==
    IF bd.error # "" THEN bd
    ELSE IF bd.i >= Len(rpn) THEN BuildEnd(bd)
    ELSE BuildFrom(BuildToken(bd, rpn), rpn)

rpnToExpression(rpn) == BuildFrom(BuildInit, rpn)

\* Expression.parse: the tree, or the Error thrown.
parse(text) ==
    LET lx == tokenize(text)
        sh == shuntToRpn(lx.tokens)
        bd == rpnToExpression(sh.outputQueue)
    IN  IF lx.error # "" THEN Thrown(lx.error)
        ELSE IF sh.error # "" THEN Thrown(sh.error)
        ELSE IF bd.error # "" THEN Thrown(bd.error)
        ELSE bd.stack[1]

-----------------------------------------------------------------------------
(* The numeric kernels (operator.ts) and RatioExpression.                  *)

\* Math.sign
JSign(a) == IF IsNaN(a) THEN NaN ELSE Num(JSignInt(a))

\* asFloat().value
asFloat(e) ==
    CASE e.type = "integer" -> e.value
      [] e.type = "float" -> e.value
      [] e.type = "ratio" -> JDiv(e.numerator, e.denominator)

isZero(e) == IF e.type = "ratio" THEN JIsZero(e.numerator) ELSE JIsZero(e.value)

isOne(e) ==
    IF e.type = "ratio" THEN JEq(e.numerator, e.denominator) ELSE JIsOne(e.value)

\* RatioExpression.gcd: while (b != 0) never ends once b is NaN.
RECURSIVE gcd(_, _)
gcd(a, b) ==
    IF JIsZero(b) THEN a
    ELSE IF IsNaN(b) THEN Hang
    ELSE gcd(b, JMod(a, b))

\* RatioExpression.reduce
reduce(this) ==
    LET g == gcd(JAbs(this.numerator), JAbs(this.denominator))
        magnitude == JAbs(JDiv(this.numerator, g))
        denominator == JAbs(JDiv(this.denominator, g))
        numerator == IF ~JEq(JSign(this.numerator), JSign(this.denominator))
                     THEN JMul(magnitude, Num(-1))
                     ELSE magnitude
    IN  IF g = Hang THEN Hang
        ELSE IF JIsZero(numerator) THEN IntegerExpression(Num(0))
        ELSE IF JIsOne(denominator) THEN IntegerExpression(numerator)
        ELSE IF JEq(numerator, this.numerator) /\ JEq(denominator, this.denominator)
        THEN this
        ELSE RatioExpression(numerator, denominator)

\* isRatio(x) ? x : new RatioExpression(x.value, 1)
AsRatio(e) == IF isRatio(e) THEN e ELSE RatioExpression(e.value, Num(1))

\* addSubNumerics with op = (a, b) => a + b, or a - b when subtract holds
addSubNumerics(left, right, subtract) ==
    IF isFloat(left) \/ isFloat(right)
    THEN FloatExpression(IF subtract THEN JSub(asFloat(left), asFloat(right))
                         ELSE JAdd(asFloat(left), asFloat(right)))
    ELSE LET leftRatio == AsRatio(left)
             rightRatio == AsRatio(right)
             denominator == JMul(leftRatio.denominator, rightRatio.denominator)
             a == JMul(leftRatio.numerator, rightRatio.denominator)
             b == JMul(rightRatio.numerator, leftRatio.denominator)
             numerator == IF subtract THEN JSub(a, b) ELSE JAdd(a, b)
         IN  reduce(RatioExpression(numerator, denominator))

multiplyNumerics(left, right) ==
    IF isFloat(left) \/ isFloat(right)
    THEN FloatExpression(JMul(asFloat(left), asFloat(right)))
    ELSE LET leftRatio == AsRatio(left)
             rightRatio == AsRatio(right)
             numerator == JMul(leftRatio.numerator, rightRatio.numerator)
             denominator == JMul(leftRatio.denominator, rightRatio.denominator)
         IN  reduce(RatioExpression(numerator, denominator))

\* A division that looks for a Float in its left operand only: a Float
\* divisor is truncated into a Ratio, and the result is exact.
divideNumericsLeftFloatOnly(left, right) ==
    IF isFloat(left)
    THEN FloatExpression(JDiv(asFloat(left), asFloat(right)))
    ELSE LET leftRatio == AsRatio(left)
             rightRatio == AsRatio(right)
             rightInverted == RatioExpression(rightRatio.denominator, rightRatio.numerator)
         IN  multiplyNumerics(leftRatio, rightInverted)

\* The divisor is inverted into a Ratio, whatever its numerator, and the
\* two are multiplied.
divideNumerics(left, right) ==
    IF isFloat(left) \/ isFloat(right)
    THEN FloatExpression(JDiv(asFloat(left), asFloat(right)))
    ELSE LET leftRatio == AsRatio(left)
             rightRatio == AsRatio(right)
             rightInverted == RatioExpression(rightRatio.denominator, rightRatio.numerator)
         IN  multiplyNumerics(leftRatio, rightInverted)

exponentiateNumerics(left, right) ==
    FloatExpression(JPow(asFloat(left), asFloat(right)))

\* The numeric operation of NegateOperator
NegateNumeric(operand) ==
    IF isFloat(operand) THEN FloatExpression(JNeg(operand.value))
    ELSE IF isRatio(operand)
    THEN RatioExpression(JNeg(operand.numerator), operand.denominator)
    ELSE IntegerExpression(JNeg(operand.value))

\* result = 1; for (i = value; i > 1; i--) result *= i
RECURSIVE FactorialLoop(_, _)
FactorialLoop(i, product) ==
    IF IsFin(i) /\ i.n > 1 THEN FactorialLoop(Num(i.n - 1), JMul(product, i))
    ELSE product

\* The numeric operation of FactorialOperator. The product of more than 170
\* factors is beyond the largest double, Infinity; counting down from
\* Infinity, or from a value so large that i-- leaves it unchanged, never
\* ends.
FactorialNumeric(operand) ==
    IF ~isInteger(operand) THEN Thrown("Factorial can only be applied to integers")
    ELSE IF operand.value.k \in {"inf", "irr"} THEN Hang
    ELSE IF IsFin(operand.value) /\ operand.value.n > 170 THEN IntegerExpression(Infinity)
    ELSE IntegerExpression(FactorialLoop(operand.value, Num(1)))

\* evaluateNumericInternal of the operator with this symbol
evaluateNumericInternal(symbol, args) ==
    CASE symbol = "~" -> NegateNumeric(args[1])
      [] symbol = "!" -> FactorialNumeric(args[1])
      [] symbol = "+" -> addSubNumerics(args[1], args[2], FALSE)
      [] symbol = "-" -> addSubNumerics(args[1], args[2], TRUE)
      [] symbol = "*" -> multiplyNumerics(args[1], args[2])
      [] symbol = "/" -> divideNumerics(args[1], args[2])
      [] symbol = "^" -> exponentiateNumerics(args[1], args[2])

-----------------------------------------------------------------------------
(* The symbolic kernels (operator.ts): at least one operand is not numeric. *)

AddExpression(left, right) ==
    IF isNumeric(left) /\ isNumeric(right) THEN addSubNumerics(left, right, FALSE)
    ELSE LET swapped == isNumeric(right)
             l == IF swapped THEN right ELSE left
             r == IF swapped THEN left ELSE right
         IN  IF isNumeric(l) /\ isZero(l) THEN r
             ELSE BinaryExpression(left, right, "+")

\* A subtraction that drops a zero on either side, as the addition does:
\* 0 - x gives x.
SubtractExpressionEitherZero(left, right) ==
    IF isNumeric(left) /\ isNumeric(right) THEN addSubNumerics(left, right, TRUE)
    ELSE IF isNumeric(right) /\ isZero(right) THEN left
    ELSE IF isNumeric(left) /\ isZero(left) THEN right
    ELSE BinaryExpression(left, right, "-")

SubtractExpression(left, right) ==
    IF isNumeric(left) /\ isNumeric(right) THEN addSubNumerics(left, right, TRUE)
    ELSE IF isNumeric(right) /\ isZero(right) THEN left
    ELSE BinaryExpression(left, right, "-")

MultiplyExpression(left, right) ==
    IF isNumeric(left) /\ isNumeric(right) THEN multiplyNumerics(left, right)
    ELSE LET swapped == isNumeric(right)
             l == IF swapped THEN right ELSE left
             r == IF swapped THEN left ELSE right
         IN  IF isNumeric(l) /\ isOne(l) THEN r
             ELSE IF isNumeric(l) /\ isZero(l) THEN IntegerExpression(Num(0))
             ELSE BinaryExpression(left, right, "*")

DivideExpression(left, right) ==
    IF isNumeric(left) /\ isNumeric(right) THEN divideNumerics(left, right)
    ELSE IF isNumeric(right) /\ isOne(right) THEN left
    ELSE IF isNumeric(right) /\ isZero(right) THEN Thrown("Division by zero")
    ELSE IF isNumeric(left) /\ isZero(left) THEN IntegerExpression(Num(0))
    ELSE BinaryExpression(left, right, "/")

ExponentiateExpression(left, right) ==
    IF isNumeric(right) /\ isZero(right) THEN IntegerExpression(Num(1))
    ELSE IF isNumeric(right) /\ isOne(right) THEN left
    ELSE IF isNumeric(left) /\ isZero(left) THEN IntegerExpression(Num(0))
    ELSE IF isNumeric(left) /\ isOne(left) THEN IntegerExpression(Num(1))
    ELSE BinaryExpression(left, right, "^")

\* Symbolic kernels whose unary operators keep the operator on a
\* non-numeric operand: -x stays Unary(~, x).
evaluateExpressionInternalKeepingUnary(symbol, args) ==
    CASE symbol \in {"~", "!"} -> UnaryExpression(args[1], symbol)
      [] symbol = "+" -> AddExpression(args[1], args[2])
      [] symbol = "-" -> SubtractExpression(args[1], args[2])
      [] symbol = "*" -> MultiplyExpression(args[1], args[2])
      [] symbol = "/" -> DivideExpression(args[1], args[2])
      [] symbol = "^" -> ExponentiateExpression(args[1], args[2])

\* evaluateExpressionInternal of the operator with this symbol
evaluateExpressionInternal(symbol, args) ==
    CASE symbol \in {"~", "!"} -> args[1]
      [] symbol = "+" -> AddExpression(args[1], args[2])
      [] symbol = "-" -> SubtractExpression(args[1], args[2])
      [] symbol = "*" -> MultiplyExpression(args[1], args[2])
      [] symbol = "/" -> DivideExpression(args[1], args[2])
      [] symbol = "^" -> ExponentiateExpression(args[1], args[2])

-----------------------------------------------------------------------------
(* Math functions on the modelled numbers: exact where the result is       *)
(* rational, opaque otherwise.                                             *)

JMin(a, b) ==
    CASE IsNaN(a) \/ IsNaN(b) -> NaN
      [] a = b -> a
      [] a.k = "ninf" \/ b.k = "inf" -> a
      [] b.k = "ninf" \/ a.k = "inf" -> b
      [] IsFin(a) /\ IsFin(b) -> IF a.n * b.d <= b.n * a.d THEN a ELSE b
      [] OTHER -> Irr("min(" \o NumTag(a) \o "," \o NumTag(b) \o ")")

JMax(a, b) ==
    CASE IsNaN(a) \/ IsNaN(b) -> NaN
      [] a = b -> a
      [] a.k = "ninf" \/ b.k = "inf" -> b
      [] b.k = "ninf" \/ a.k = "inf" -> a
      [] IsFin(a) /\ IsFin(b) -> IF a.n * b.d >= b.n * a.d THEN a ELSE b
      [] OTHER -> Irr("max(" \o NumTag(a) \o "," \o NumTag(b) \o ")")

\* Math.log
JLog(a) ==
    CASE IsNaN(a) \/ a.k = "ninf" -> NaN
      [] a.k = "inf" -> Infinity
      [] IsFin(a) /\ a.n < 0 -> NaN
      [] JIsZero(a) -> NegInfinity
      [] JIsOne(a) -> Num(0)
      [] a = Irr("e") -> Num(1)
      [] OTHER -> Irr("ln(" \o NumTag(a) \o ")")

\* Math.sin, Math.cos, Math.tan, Math.asin, Math.acos, Math.atan
JTrig(name, a) ==
    CASE IsNaN(a) -> NaN
      [] JIsZero(a) /\ name \in {"sin", "tan", "asin", "atan"} -> Num(0)
      [] JIsZero(a) /\ name = "cos" -> Num(1)
      [] JIsOne(a) /\ name = "acos" -> Num(0)
      [] IsInf(a) /\ name # "atan" -> NaN
      [] IsFin(a) /\ name \in {"asin", "acos"} /\ Abs(a.n) > a.d -> NaN
      [] OTHER -> Irr(name \o "(" \o NumTag(a) \o ")")

\* Math.atan2
JAtan2(y, x) ==
    CASE IsNaN(y) \/ IsNaN(x) -> NaN
      [] JIsZero(y) /\ (x.k = "inf" \/ (IsFin(x) /\ x.n >= 0)) -> Num(0)
      [] OTHER -> Irr("atan2(" \o NumTag(y) \o "," \o NumTag(x) \o ")")

\* fn(...numberArgs) of each built-in numeric function
MathFunction(name, xs) ==
    CASE name = "ln" -> JLog(xs[1])
      [] name = "log" -> JDiv(JLog(xs[2]), JLog(xs[1]))
      [] name = "max" -> JMax(xs[1], xs[2])
      [] name = "min" -> JMin(xs[1], xs[2])
      [] name = "atan2" -> JAtan2(xs[1], xs[2])
      [] OTHER -> JTrig(name, xs[1])

-----------------------------------------------------------------------------
(* Evaluation.  fuel counts the nested evaluate calls still allowed.       *)

\* Expression.defaultVariables
defaultVariables ==
    [pi |-> FloatExpression(Irr("pi")), e |-> FloatExpression(Irr("e"))]

\* { ...base, ...over }
Spread(base, over) == over @@ base

RadiansToDegrees ==
    BinaryExpression(FloatExpression(Num(180)), VariableExpression("pi"), "/")

DegreesToRadians ==
    BinaryExpression(VariableExpression("pi"), FloatExpression(Num(180)), "/")

\* The first Error or endless loop among values computed in order, if any.
FirstAbrupt(values) ==
    IF \E k \in DOMAIN values : IsAbrupt(values[k])
    THEN values[CHOOSE k \in DOMAIN values :
                    IsAbrupt(values[k]) /\ \A j \in 1..(k - 1) : ~IsAbrupt(values[j])]
    ELSE Undefined

AnyAbrupt(values) == \E k \in DOMAIN values : IsAbrupt(values[k])

StackExhausted == Thrown("RangeError: Maximum call stack size exceeded")

TypeError == Thrown("TypeError")

\* The name property of a node that has none: undefined, which is equal to
\* no identifier, as the empty string is.
UndefinedName == ""

\* A differentiation that takes every other variable for a constant and
\* returns 0 for it, where Expression.diff returns the variable itself.
RECURSIVE diffOtherVariableZero(_, _)
diffOtherVariableZero(node, variable) ==
    CASE node.type = "undefined" -> TypeError
      [] node.type \in {"float", "integer", "ratio"} -> IntegerExpression(Num(0))
      [] node.type = "variable" ->
            IF variable # UndefinedName /\ node.name = variable
            THEN IntegerExpression(Num(1))
            ELSE IntegerExpression(Num(0))
      [] node.type = "binary" ->
            LET l == node.left
                r == node.right
                dl == diffOtherVariableZero(l, variable)
                dr == diffOtherVariableZero(r, variable)
            IN  CASE node.operator \in {"+", "-"} ->
                        IF IsAbrupt(dl) THEN dl
                        ELSE IF IsAbrupt(dr) THEN dr
                        ELSE BinaryExpression(dl, dr, node.operator)
                  [] node.operator = "*" ->
                        IF IsAbrupt(dr) THEN dr
                        ELSE IF IsAbrupt(dl) THEN dl
                        ELSE BinaryExpression(BinaryExpression(l, dr, "*"),
                                              BinaryExpression(r, dl, "*"), "+")
                  [] node.operator = "/" ->
                        IF IsAbrupt(dl) THEN dl
                        ELSE IF IsAbrupt(dr) THEN dr
                        ELSE BinaryExpression(
                                BinaryExpression(BinaryExpression(r, dl, "*"),
                                                 BinaryExpression(l, dr, "*"), "-"),
                                BinaryExpression(r, r, "*"), "/")
                  [] node.operator = "^" ->
                        BinaryExpression(r,
                            BinaryExpression(l,
                                BinaryExpression(r, IntegerExpression(Num(1)), "-"), "^"),
                            "*")
                  [] OTHER -> Thrown("Unknown operator")
      [] OTHER -> Thrown("Unknown expression type")

\* Expression.diff(node, variable); variable is UndefinedName when the
\* identifier argument has no name property.
RECURSIVE diff(_, _)
diff(node, variable) ==
    CASE node.type = "undefined" -> TypeError
      [] node.type \in {"float", "integer", "ratio"} -> IntegerExpression(Num(0))
      [] node.type = "variable" ->
            IF variable # UndefinedName /\ node.name = variable
            THEN IntegerExpression(Num(1))
            ELSE node
      [] node.type = "binary" ->
            LET l == node.left
                r == node.right
                dl == diff(l, variable)
                dr == diff(r, variable)
            IN  CASE node.operator \in {"+", "-"} ->
                        IF IsAbrupt(dl) THEN dl
                        ELSE IF IsAbrupt(dr) THEN dr
                        ELSE BinaryExpression(dl, dr, node.operator)
                  [] node.operator = "*" ->
                        IF IsAbrupt(dr) THEN dr
                        ELSE IF IsAbrupt(dl) THEN dl
                        ELSE BinaryExpression(BinaryExpression(l, dr, "*"),
                                              BinaryExpression(r, dl, "*"), "+")
                  [] node.operator = "/" ->
                        IF IsAbrupt(dl) THEN dl
                        ELSE IF IsAbrupt(dr) THEN dr
                        ELSE BinaryExpression(
                                BinaryExpression(BinaryExpression(r, dl, "*"),
                                                 BinaryExpression(l, dr, "*"), "-"),
                                BinaryExpression(r, r, "*"), "/")
                  [] node.operator = "^" ->
                        BinaryExpression(r,
                            BinaryExpression(l,
                                BinaryExpression(r, IntegerExpression(Num(1)), "-"), "^"),
                            "*")
                  [] OTHER -> Thrown("Unknown operator")
      [] OTHER -> Thrown("Unknown expression type")

RECURSIVE Evaluate(_, _, _, _)
RECURSIVE EvaluateAll(_, _, _, _)
RECURSIVE OperatorEvaluate(_, _, _, _, _)
RECURSIVE SumLoop(_, _, _, _, _, _, _, _)
RECURSIVE Handler(_, _, _, _, _)
RECURSIVE SumLoopOuterFirst(_, _, _, _, _, _, _, _)
RECURSIVE EvaluateSharedMap(_, _, _, _)

\* args.map(a => a.evaluate(mode, variables))
EvaluateAll(args, m, vs, fuel) == [k \in DOMAIN args |-> Evaluate(args[k], m, vs, fuel)]

\* Operator.evaluate(args, mode, variables): the operands are evaluated once
\* more, then the numeric or the symbolic kernel is applied.
OperatorEvaluate(symbol, args, m, vs, fuel) ==
    IF fuel = 0 THEN StackExhausted
    ELSE LET evaluatedArgs == EvaluateAll(args, m, vs, fuel - 1)
         IN  IF AnyAbrupt(evaluatedArgs) THEN FirstAbrupt(evaluatedArgs)
             ELSE IF \A k \in DOMAIN evaluatedArgs : isNumeric(evaluatedArgs[k])
             THEN evaluateNumericInternal(symbol, evaluatedArgs)
             ELSE evaluateExpressionInternal(symbol, evaluatedArgs)

\* A sum loop whose child map lets an outer binding of the loop variable win:
\* { [ident.name]: i, ...variables }.
SumLoopOuterFirst(expr, ident, i, last, acc, m, vs, fuel) ==
    IF i > last THEN acc
    ELSE IF ident.type = "undefined" THEN TypeError
    ELSE LET key == IF ident.type = "variable" THEN ident.name ELSE "undefined"
             bound == Spread(key :> IntegerExpression(Num(i)), vs)
             next == Evaluate(expr, m, bound, fuel)
             sum == Evaluate(BinaryExpression(acc, next, "+"), m, vs, fuel)
         IN  IF IsAbrupt(next) THEN next
             ELSE IF IsAbrupt(sum) THEN sum
             ELSE SumLoopOuterFirst(expr, ident, i + 1, last, sum, m, vs, fuel)

\* The loop of the sum handler from i to last, with result so far.
SumLoop(expr, ident, i, last, acc, m, vs, fuel) ==
    IF i > last THEN acc
    ELSE IF ident.type = "undefined" THEN TypeError
    ELSE LET key == IF ident.type = "variable" THEN ident.name ELSE "undefined"
             bound == Spread(vs, key :> IntegerExpression(Num(i)))
             next == Evaluate(expr, m, bound, fuel)
             sum == Evaluate(BinaryExpression(acc, next, "+"), m, vs, fuel)
         IN  IF IsAbrupt(next) THEN next
             ELSE IF IsAbrupt(sum) THEN sum
             ELSE SumLoop(expr, ident, i + 1, last, sum, m, vs, fuel)

\* A numeric wrapper that converts its arguments by the mode, as wrapTrig
\* does.
WrapNumberFunctionConverting(name, args, m, vs, fuel) ==
    LET multiplier == IF m = "Degrees" THEN DegreesToRadians
                      ELSE FloatExpression(Num(1))
        evaluatedArgs ==
            [k \in DOMAIN args |->
                Evaluate(BinaryExpression(args[k], multiplier, "*"), m, vs, fuel)]
    IN  IF AnyAbrupt(evaluatedArgs) THEN FirstAbrupt(evaluatedArgs)
        ELSE IF \A k \in DOMAIN evaluatedArgs : isNumeric(evaluatedArgs[k])
        THEN FloatExpression(
                MathFunction(name, [k \in DOMAIN evaluatedArgs |-> asFloat(evaluatedArgs[k])]))
        ELSE FunctionCallExpression(
                FunctionCallToken(IdentifierToken(name, -1), Num(Len(evaluatedArgs))),
                evaluatedArgs)

\* The numeric wrapper shared by ln, log, max, min and the arc functions.
WrapNumberFunction(name, args, m, vs, fuel) ==
    LET evaluatedArgs == EvaluateAll(args, m, vs, fuel)
    IN  IF AnyAbrupt(evaluatedArgs) THEN FirstAbrupt(evaluatedArgs)
        ELSE IF \A k \in DOMAIN evaluatedArgs : isNumeric(evaluatedArgs[k])
        THEN FloatExpression(
                MathFunction(name, [k \in DOMAIN evaluatedArgs |-> asFloat(evaluatedArgs[k])]))
        ELSE FunctionCallExpression(
                FunctionCallToken(IdentifierToken(name, -1), Num(Len(evaluatedArgs))),
                evaluatedArgs)

\* this._definition.handler(args, mode, variables), fuel being what the
\* handler's own evaluate calls may use.
Handler(name, args, m, vs, fuel) ==
    CASE name \in {"ln", "log", "max", "min"} ->
            WrapNumberFunction(name, args, m, vs, fuel)
      [] name \in {"sin", "cos", "tan"} ->
            LET multiplier == IF m = "Degrees" THEN DegreesToRadians
                              ELSE FloatExpression(Num(1))
                evaluatedArgs ==
                    [k \in DOMAIN args |->
                        Evaluate(BinaryExpression(args[k], multiplier, "*"), m, vs, fuel)]
            IN  IF AnyAbrupt(evaluatedArgs) THEN FirstAbrupt(evaluatedArgs)
                ELSE IF \A k \in DOMAIN evaluatedArgs : isNumeric(evaluatedArgs[k])
                THEN FloatExpression(
                        MathFunction(name,
                            [k \in DOMAIN evaluatedArgs |-> asFloat(evaluatedArgs[k])]))
                ELSE FunctionCallExpression(
                        FunctionCallToken(IdentifierToken(name, -1),
                                          Num(Len(evaluatedArgs))),
                        evaluatedArgs)
      [] name \in {"acos", "asin", "atan", "atan2"} ->
            LET multiplier == IF m = "Degrees" THEN RadiansToDegrees
                              ELSE FloatExpression(Num(1))
                intermediateResult == WrapNumberFunction(name, args, m, vs, fuel)
            IN  IF IsAbrupt(intermediateResult) THEN intermediateResult
                ELSE Evaluate(BinaryExpression(intermediateResult, multiplier, "*"),
                              m, vs, fuel)
      [] name = "diff" ->
            LET expr == args[1]
                ident == args[2]
                expressionResult ==
                    diff(expr, IF ident.type = "variable" THEN ident.name ELSE UndefinedName)
            IN  IF ident.type = "undefined" THEN TypeError
                ELSE IF IsAbrupt(expressionResult) THEN expressionResult
                ELSE Evaluate(expressionResult, m, vs, fuel)
      [] name = "sum" ->
            LET start == Evaluate(args[3], m, vs, fuel)
                end == Evaluate(args[4], m, vs, fuel)
            IN  IF IsAbrupt(start) THEN start
                ELSE IF IsAbrupt(end) THEN end
                ELSE IF ~isInteger(start) \/ ~isInteger(end)
                THEN Thrown("Sum bounds must be integers")
                ELSE IF ~IsFin(start.value) \/ ~IsFin(end.value)
                THEN IntegerExpression(Num(0))
                ELSE SumLoop(args[1], args[2], start.value.n, end.value.n,
                             IntegerExpression(Num(0)), m, vs, fuel)
      [] OTHER -> TypeError

\* The map a sum handler that wrote its loop variable into the caller's map,
\* variables[ident.name] = new IntegerExpression(i), would leave behind.
LeftBehind(call, m, vs, fuel) ==
    IF /\ call.type = "functionCall"
       /\ call.func.identifier.text = "sum"
       /\ call.args[2].type = "variable"
    THEN LET end == Evaluate(call.args[4], m, vs, fuel)
         IN  IF isInteger(end) THEN Spread(vs, call.args[2].name :> end) ELSE vs
    ELSE vs

\* An evaluation in which the right operand of a binary node sees the map
\* its left operand left behind.
EvaluateSharedMap(this, m, vs, fuel) ==
    IF fuel = 0 THEN StackExhausted
    ELSE CASE this.type = "undefined" -> TypeError
           [] this.type \in {"integer", "float", "ratio"} -> this
           [] this.type = "variable" ->
                IF this.name \in DOMAIN vs
                THEN Evaluate(vs[this.name], m, vs, fuel - 1)
                ELSE IF this.name \in InheritedNames THEN TypeError
                ELSE this
           [] this.type = "unary" ->
                LET operandValue == Evaluate(this.operand, m, vs, fuel - 1)
                IN  IF IsAbrupt(operandValue) THEN operandValue
                    ELSE OperatorEvaluate(this.operator, <<operandValue>>,
                                          m, vs, fuel - 1)
           [] this.type = "binary" ->
                LET leftValue == Evaluate(this.left, m, vs, fuel - 1)
                    rightValue == Evaluate(this.right, m,
                                           LeftBehind(this.left, m, vs, fuel - 1),
                                           fuel - 1)
                IN  IF IsAbrupt(leftValue) THEN leftValue
                    ELSE IF IsAbrupt(rightValue) THEN rightValue
                    ELSE OperatorEvaluate(this.operator,
                                          <<leftValue, rightValue>>, m, vs, fuel - 1)
           [] this.type = "functionCall" ->
                Handler(this.func.identifier.text, this.args, m, vs, fuel - 1)

\* this.evaluate(mode, variables) of an Expression node
Evaluate(this, m, vs, fuel) ==
    IF fuel = 0 THEN StackExhausted
    ELSE CASE this.type = "undefined" -> TypeError
           [] this.type \in {"integer", "float", "ratio"} -> this
           [] this.type = "variable" ->
                IF this.name \in DOMAIN vs
                THEN Evaluate(vs[this.name], m, vs, fuel - 1)
                ELSE IF this.name \in InheritedNames THEN TypeError
                ELSE this
           [] this.type = "unary" ->
                LET operandValue == Evaluate(this.operand, m, vs, fuel - 1)
                IN  IF IsAbrupt(operandValue) THEN operandValue
                    ELSE OperatorEvaluate(this.operator, <<operandValue>>,
                                          m, vs, fuel - 1)
           [] this.type = "binary" ->
                LET leftValue == Evaluate(this.left, m, vs, fuel - 1)
                    rightValue == Evaluate(this.right, m, vs, fuel - 1)
                IN  IF IsAbrupt(leftValue) THEN leftValue
                    ELSE IF IsAbrupt(rightValue) THEN rightValue
                    ELSE OperatorEvaluate(this.operator,
                                          <<leftValue, rightValue>>, m, vs, fuel - 1)
           [] this.type = "functionCall" ->
                Handler(this.func.identifier.text, this.args, m, vs, fuel - 1)

\* Expression.evaluate(expression, mode, variables) on the parsed tree
evaluate(expr, m, userVariables) ==
    Evaluate(expr, m, Spread(defaultVariables, userVariables), MaxCallDepth)

\* toString of a numeric node as a sequence of characters: the value of an
\* Integer or a Float, numerator/denominator of a Ratio.
NumericToString(this) ==
    IF this.type = "ratio"
    THEN NumberToString(this.numerator) \o <<"/">> \o NumberToString(this.denominator)
    ELSE NumberToString(this.value)

\* toString, as a sequence of characters, of a tree of numbers and
\* operators.
RECURSIVE Characters(_)
Characters(this) ==
    CASE this.type \in {"integer", "float", "ratio"} -> NumericToString(this)
      [] this.type = "unary" -> <<this.operator>> \o Characters(this.operand)
      [] this.type = "binary" ->
            <<"(">> \o Characters(this.left) \o <<this.operator>>
                   \o Characters(this.right) \o <<")">>

\* args.join(','): an undefined element joins as the empty string.
RECURSIVE toString(_)
RECURSIVE Join(_, _)
Join(args, k) ==
    IF k > Len(args) THEN ""
    ELSE (IF k > 1 THEN "," ELSE "")
         \o (IF args[k].type = "undefined" THEN "" ELSE toString(args[k]))
         \o Join(args, k + 1)

\* Expression.toString of each node class
toString(this) ==
    CASE this.type \in {"integer", "float", "ratio"} -> Str(NumericToString(this))
      [] this.type = "variable" -> this.name
      [] this.type = "unary" -> this.operator \o toString(this.operand)
      [] this.type = "binary" ->
            "(" \o toString(this.left) \o this.operator \o toString(this.right) \o ")"
      [] this.type = "functionCall" -> this.func.text \o "(" \o Join(this.args, 1) \o ")"

-----------------------------------------------------------------------------
(* The inputs.                                                             *)

Modes == {"Radians", "Degrees"}

NoVariables == <<>>

\* The texts of the test suite (tests/expression.test.ts).
TestTexts ==
    {<<"-", "3", "+", "4">>,
     <<"1", "2", "3">>,
     <<"1", "2", "3", ".", "4", "5", "6">>,
     <<"1", "2", "3", ".">>,
     <<"3", "+", "4", "*", "5">>,
     <<"2", "/", "4">>,
     <<"2", "/", "4", ".">>,
     <<"p", "i", "*", "2">>,
     <<"x", "*", "2">>,
     <<"(", "3", "+", "4", ")", "*", "(", "2", "+", "3", ")">>,
     <<"5", "!">>,
     <<"m", "i", "n", "(", "3", ",", " ", "5", ")">>,
     <<"s", "u", "m", "(", "x", "^", "2", ",", "x", ",", "1", ",", "3", ")">>,
     <<"d", "i", "f", "f", "(", "x", "^", "3", "+", "2", "*", "x", ",", " ", "x", ")">>,
     <<"s", "i", "n", "(", "9", "0", ")">>,
     <<"s", "i", "n", "(", "p", "i", "/", "2", ")">>,
     <<"a", "s", "i", "n", "(", "1", ")">>}

\* Every concatenation of at most count pieces.
RECURSIVE Concatenations(_, _)
Concatenations(pieces, count) ==
    IF count = 0 THEN {<<>>}
    ELSE LET shorter == Concatenations(pieces, count - 1)
         IN  shorter \cup {s \o p : s \in shorter, p \in pieces}

\* Arithmetic on literals: integer literals 0..MaxLiteral and float literals,
\* two or three operands, a unary minus or parentheses on the first two.
IntegerLiterals == {<<DigitChar(k)>> : k \in 0..MaxLiteral}

FloatLiterals == {<<"4", ".">>, <<".", "5">>}

Literals == IntegerLiterals \cup FloatLiterals

BinarySymbols == {<<"+">>, <<"-">>, <<"*">>, <<"/">>, <<"^">>}

ArithmeticTexts ==
    LET pairs == {a \o o \o b : a \in Literals, o \in BinarySymbols, b \in Literals}
        heads == pairs \cup {<<"-">> \o p : p \in pairs}
                       \cup {<<"(">> \o p \o <<")">> : p \in pairs}
    IN  heads \cup {h \o o \o c : h \in heads, o \in BinarySymbols, c \in Literals}

\* Three operands and two operators, with or without a blank before each
\* operator: a number, an identifier or a parenthesised number as operand.
PrecedenceTexts ==
    LET operands == {<<"3">>, <<"x">>, <<"(", "4", ")">>}
        blanks == {<<>>, <<" ">>}
        symbols == {<<"+">>, <<"-">>, <<"*">>, <<"^">>}
    IN  {a \o v \o o \o b \o w \o q \o c :
            a \in operands, b \in operands, c \in {<<"5">>},
            o \in symbols, q \in symbols, v \in blanks, w \in blanks}

\* Lexer inputs: a digit, letters, a character of no class, a blank, an
\* operator and the decimal point.
MaxLexLength == 4

LexTexts == Concatenations({<<"2">>, <<"x">>, <<"e">>, <<"$">>, <<" ">>, <<"+">>, <<".">>},
                           MaxLexLength)

\* Parser inputs: parentheses, commas, operands, operators and one function
\* name.
MaxParseLength == 4

ParseTexts ==
    Concatenations({<<"(">>, <<")">>, <<",">>, <<"3">>, <<"+">>, <<"-">>, <<"x">>,
                    <<"m", "i", "n">>}, MaxParseLength)

\* Factorials of integers, negated integers, ratios and floats.
MaxFactorial == 5

FactorialTexts ==
    LET digits == {<<DigitChar(k)>> : k \in 0..MaxFactorial}
    IN  {d \o <<"!">> : d \in digits}
        \cup {<<"(", "-">> \o d \o <<")", "!">> : d \in digits}
        \cup {<<"(">> \o a \o <<"/">> \o b \o <<")", "!">> : a \in digits, b \in digits}
        \cup {f \o <<"!">> : f \in FloatLiterals}
        \cup {<<"x", "!">>}

\* Calls of sum and diff with a variable, a number or an operator expression
\* as the identifier argument.
CallTexts ==
    LET bodies == {<<"x", "^", "2">>, <<"x">>, <<"2", "*", "x">>}
        idents == {<<"x">>, <<"y">>, <<"3">>, <<"x", "+", "1">>, <<"2", ".">>}
        starts == {<<"1">>, <<"3">>}
        ends == {<<"0">>, <<"3">>}
    IN  {<<"d", "i", "f", "f", "(">> \o b \o <<",">> \o i \o <<")">> :
            b \in bodies, i \in idents}
        \cup {<<"s", "u", "m", "(">> \o b \o <<",">> \o i \o <<",">> \o s
                \o <<",">> \o n \o <<")">> :
                b \in bodies, i \in idents, s \in starts, n \in ends}

\* diff by x of constants, of variables and of one operator on them.
DiffTexts ==
    LET constants == {<<"2">>, <<".", "5">>, <<"2", "+", "3">>, <<"2", "-", "3">>,
                      <<"2", "*", "3">>, <<"6", "/", "3">>, <<"2", "^", "3">>,
                      <<"-", "2">>, <<"3", "!">>}
        operands == {<<"x">>, <<"y">>, <<"2">>}
        powers == {<<"x", "^", "1">>, <<"x", "^", "2">>, <<"x", "^", "3">>}
        bodies == constants \cup powers \cup operands
                     \cup {a \o o \o b : a \in operands, o \in BinarySymbols, b \in operands}
    IN  {<<"d", "i", "f", "f", "(">> \o b \o <<",", "x", ")">> : b \in bodies}

\* Calls of the numeric functions with a variable or a number in each place.
FunctionTexts ==
    LET unary == {<<"l", "n">>, <<"a", "s", "i", "n">>, <<"a", "c", "o", "s">>,
                  <<"a", "t", "a", "n">>, <<"s", "i", "n">>}
        binary == {<<"l", "o", "g">>, <<"m", "i", "n">>, <<"m", "a", "x">>,
                   <<"a", "t", "a", "n", "2">>}
        values == {<<"x">>, <<"1">>, <<".", "5">>}
    IN  {f \o <<"(">> \o a \o <<")">> : f \in unary, a \in values}
        \cup {f \o <<"(">> \o a \o <<",">> \o b \o <<")">> :
                f \in binary, a \in values, b \in values}

\* A call of sum or diff as one operand of a binary operator whose other
\* operand names the variable of the call.
FrameTexts ==
    LET calls == {<<"s", "u", "m", "(", "x", ",", "x", ",", "1", ",", "2", ")">>,
                  <<"s", "u", "m", "(", "y", "*", "x", ",", "y", ",", "1", ",", "2", ")">>,
                  <<"d", "i", "f", "f", "(", "x", "^", "2", ",", "x", ")">>}
        others == {<<"x">>, <<"y">>}
    IN  {c \o o \o v : c \in calls, o \in {<<"+">>, <<"*">>}, v \in others}
        \cup {v \o o \o c : c \in calls, o \in {<<"+">>, <<"*">>}, v \in others}

\* One call name(a1,...,an) of a built-in, an unknown or an inherited name
\* with n from 0 to 5, each argument a number or a call of min.
ArityTexts ==
    LET names == {<<"f", "o", "o">>, <<"m", "i", "n">>, <<"m", "a", "x">>,
                  <<"s", "i", "n">>, <<"s", "u", "m">>,
                  <<"t", "o", "S", "t", "r", "i", "n", "g">>}
        one == {<<"1">>, <<"m", "i", "n", "(", "1", ",", "2", ")">>}
        lists == {<<>>, <<"1">>, <<"1", ",", "2">>, <<"x", ",", "x", ",", "1">>,
                  <<"x", ",", "x", ",", "1", ",", "2">>,
                  <<"1", ",", "2", ",", "3", ",", "4", ",", "5">>}
                 \cup {a \o <<",">> \o b : a \in one, b \in {<<"3">>}}
                 \cup {<<"m", "i", "n", "(", "1", ",", "2", ")">>,
                       <<"m", "i", "n", "(", "1", ")", ",", "3">>}
    IN  {n \o <<"(">> \o l \o <<")">> : n \in names, l \in lists}

\* A minus after and before a number, a factorial, a product sign, a blank
\* and an exponent marker.
MaxMinusLength == 4

MinusTexts ==
    Concatenations({<<"3">>, <<"-">>, <<"*">>, <<" ">>, <<"e">>}, MaxMinusLength)
    \cup {<<"3", "-", "4">>, <<"3", "*", "-", "4">>, <<"3", "!", "-", "4">>,
          <<"3", "!", " ", "-", "4">>, <<"(", "3", ")", "!", "-", "4">>,
          <<"x", "!", "-", "4">>, <<"-", "3", "!">>, <<"!", "-", "3">>}

\* Number literals with a decimal point and an exponent, well formed and
\* malformed.
NumberTexts ==
    {<<"1", "e", "3">>, <<"1", "E", "3">>, <<"1", "e", "-", "3">>, <<".", "5", "e", "1">>,
     <<"1", ".", "2", ".", "3">>, <<"1", "e", "5", ".", "2">>, <<".">>,
     <<"1", "e">>, <<"1", "e", "+">>, <<"1", "e", "-", "-", "5">>,
     <<"1", "e", "+", "5">>, <<"1", ".", "e", "3">>, <<"1", "e", "5", "e", "2">>}

\* One binary operator on variables and on the numbers 0, 1, 2 and 1.
IdentityTexts ==
    LET operands == {<<"x">>, <<"y">>, <<"0">>, <<"1">>, <<"2">>, <<"1", ".">>}
    IN  {a \o o \o b : a \in operands, o \in BinarySymbols, b \in operands}

\* A lone identifier: unbound names, the built-in variables, and names every
\* JavaScript object inherits.
VariableTexts ==
    {<<"x">>, <<"y">>, <<"p", "i">>, <<"e">>,
     <<"t", "o", "S", "t", "r", "i", "n", "g">>,
     <<"c", "o", "n", "s", "t", "r", "u", "c", "t", "o", "r">>}

\* The caller's variable maps: none, an Integer, and a Ratio the caller built
\* with the exported constructor, which does not reduce, and one that binds x
\* to an expression and replaces the built-in pi.
Environments ==
    {NoVariables,
     [x |-> IntegerExpression(Num(3))],
     [x |-> RatioExpression(Num(2), Num(4))],
     [x |-> BinaryExpression(VariableExpression("pi"), IntegerExpression(Num(2)), "+"),
      pi |-> IntegerExpression(Num(4))]}

\* The calls of Expression.evaluate the model runs.
Calls ==
    [text : TestTexts \cup CallTexts \cup FactorialTexts \cup VariableTexts
            \cup FunctionTexts \cup DiffTexts \cup FrameTexts \cup IdentityTexts,
     mode : Modes,
     variables : Environments]
    \cup [text : ArithmeticTexts \cup PrecedenceTexts \cup LexTexts \cup ParseTexts
                  \cup ArityTexts \cup MinusTexts \cup NumberTexts,
          mode : {"Radians"}, variables : {NoVariables}]

-----------------------------------------------------------------------------
(* The state machine: one call of Expression.evaluate(text, mode, variables). *)

NoTree == [type |-> "none"]

Init ==
    /\ \E call \in Calls :
          /\ expression = call.text
          /\ mode = call.mode
          /\ variables = call.variables
    /\ pc = "tokenize"
    /\ lex = TokenizeInit
    /\ shunt = ShuntInit
    /\ build = BuildInit
    /\ tree = NoTree
    /\ result = NoTree
    /\ error = ""

\* One turn of the loop of tokenize.
TokenizeStep ==
    /\ pc = "tokenize"
    /\ lex.i < Len(expression)
    /\ lex' = TokenizeChar(lex, expression[lex.i + 1])
    /\ pc' = IF lex'.error # "" THEN "failed" ELSE "tokenize"
    /\ error' = lex'.error
    /\ UNCHANGED <<expression, mode, variables, shunt, build, tree, result>>

\* The end of tokenize.
TokenizeReturn ==
    /\ pc = "tokenize"
    /\ lex.i = Len(expression)
    /\ lex' = TokenizeEnd(lex, Len(expression))
    /\ pc' = "shunt"
    /\ UNCHANGED <<expression, mode, variables, shunt, build, tree, result, error>>

\* One turn of the token loop of shuntToRpn.
ShuntStep ==
    /\ pc = "shunt"
    /\ shunt.i < Len(lex.tokens)
    /\ shunt' = ShuntToken(shunt, lex.tokens)
    /\ pc' = IF shunt'.error # "" THEN "failed" ELSE "shunt"
    /\ error' = shunt'.error
    /\ UNCHANGED <<expression, mode, variables, lex, build, tree, result>>

\* The final loop of shuntToRpn and its return.
ShuntReturn ==
    /\ pc = "shunt"
    /\ shunt.i = Len(lex.tokens)
    /\ shunt' = ShuntDrain(shunt)
    /\ pc' = IF shunt'.error # "" THEN "failed" ELSE "build"
    /\ error' = shunt'.error
    /\ UNCHANGED <<expression, mode, variables, lex, build, tree, result>>

\* One turn of the loop of rpnToExpression.
BuildStep ==
    /\ pc = "build"
    /\ build.i < Len(shunt.outputQueue)
    /\ build' = BuildToken(build, shunt.outputQueue)
    /\ pc' = IF build'.error # "" THEN "failed" ELSE "build"
    /\ error' = build'.error
    /\ UNCHANGED <<expression, mode, variables, lex, shunt, tree, result>>

\* The end of rpnToExpression: parse returns the tree.
BuildReturn ==
    /\ pc = "build"
    /\ build.i = Len(shunt.outputQueue)
    /\ build' = BuildEnd(build)
    /\ pc' = IF build'.error # "" THEN "failed" ELSE "evaluate"
    /\ error' = build'.error
    /\ tree' = IF build'.error # "" THEN tree ELSE build.stack[1]
    /\ UNCHANGED <<expression, mode, variables, lex, shunt, result>>

\* expr.evaluate(modeToUse, combinedVariables): result is the value returned,
\* or the Error thrown, or the mark of a loop that never ends.
EvaluateCall ==
    /\ pc = "evaluate"
    /\ result' = evaluate(tree, mode, variables)
    /\ pc' = CASE result'.type = "error" -> "failed"
                [] result'.type = "hang" -> "hung"
                [] OTHER -> "done"
    /\ error' = IF result'.type = "error" THEN result'.message ELSE error
    /\ UNCHANGED <<expression, mode, variables, lex, shunt, build, tree>>

Next ==
    \/ TokenizeStep
    \/ TokenizeReturn
    \/ ShuntStep
    \/ ShuntReturn
    \/ BuildStep
    \/ BuildReturn
    \/ EvaluateCall

Spec == Init /\ [][Next]_vars

-----------------------------------------------------------------------------
(* Properties.                                                             *)

\* The call has ended: evaluate returned, threw, or loops for ever.
Ended == pc \in {"done", "failed", "hung"}

\* parse returned a tree.
Parsed == tree # NoTree

\* node is built from integer and float literals with these unary and these
\* binary operators only.
RECURSIVE OnlyLiterals(_, _, _)
OnlyLiterals(node, unaries, binaries) ==
    CASE node.type \in {"integer", "float"} -> TRUE
      [] node.type = "unary" ->
            node.operator \in unaries /\ OnlyLiterals(node.operand, unaries, binaries)
      [] node.type = "binary" ->
            /\ node.operator \in binaries
            /\ OnlyLiterals(node.left, unaries, binaries)
            /\ OnlyLiterals(node.right, unaries, binaries)
      [] OTHER -> FALSE

\* A float literal occurs in a tree of literals.
RECURSIVE HasFloat(_)
HasFloat(node) ==
    CASE node.type = "float" -> TRUE
      [] node.type = "unary" -> HasFloat(node.operand)
      [] node.type = "binary" -> HasFloat(node.left) \/ HasFloat(node.right)
      [] OTHER -> FALSE

\* No child of the tree is missing.
RECURSIVE FullyBuilt(_)
FullyBuilt(node) ==
    CASE node.type = "undefined" -> FALSE
      [] node.type = "unary" -> FullyBuilt(node.operand)
      [] node.type = "binary" -> FullyBuilt(node.left) /\ FullyBuilt(node.right)
      [] node.type = "functionCall" ->
            \A k \in DOMAIN node.args : FullyBuilt(node.args[k])
      [] OTHER -> TRUE

\* A Ratio in lowest terms: integers, the denominator at least 1, no common
\* factor, the sign on the numerator.
ReducedRatio(r) ==
    /\ r.type = "ratio"
    /\ IsFin(r.numerator) /\ r.numerator.d = 1
    /\ IsFin(r.denominator) /\ r.denominator.d = 1
    /\ r.denominator.n >= 1
    /\ IntGcd(Abs(r.numerator.n), r.denominator.n) = 1

\* The number of '(' among the first k tokens that no later ')' among them
\* closes.
RECURSIVE OpenParentheses(_, _)
OpenParentheses(tokens, k) ==
    IF k = 0 THEN 0
    ELSE LET before == OpenParentheses(tokens, k - 1)
         IN  CASE tokens[k].type = "punctuation" /\ tokens[k].text = "(" -> before + 1
               [] tokens[k].type = "punctuation" /\ tokens[k].text = ")" /\ before > 0 ->
                    before - 1
               [] OTHER -> before

\* The characters of the first k tokens.
RECURSIVE TokenCharacters(_, _)
TokenCharacters(tokens, k) ==
    IF k = 0 THEN 0 ELSE TokenCharacters(tokens, k - 1) + Len(tokens[k].text)

\* n!
RECURSIVE Factorial(_)
Factorial(n) == IF n <= 1 THEN 1 ELSE n * Factorial(n - 1)

\* C1: the shunter orders operators by the canonical table whatever
\* precedence the lexer put on the token, so the tree parse returns is the
\* tree of the same tokens carrying the precedence and the associativity of
\* the table; neither a blank nor a ')' before an operator changes it, and
\* '3+4*5' evaluates to 23.
C1_CanonicalPrecedence ==
    /\ (pc = "evaluate" /\ FullyBuilt(tree)) =>
          LET canonical ==
                  [k \in DOMAIN lex.tokens |->
                      IF lex.tokens[k].type = "operator"
                      THEN [lex.tokens[k] EXCEPT
                               !.associativity = associativity(lex.tokens[k].text),
                               !.precedence = precedence(lex.tokens[k].text)]
                      ELSE lex.tokens[k]]
              expected == rpnToExpression(shuntToRpn(canonical).outputQueue)
          IN  expected.error = "" /\ tree = expected.stack[1]
    /\ (pc = "done" /\ expression = <<"3", "+", "4", "*", "5">>) =>
          result = IntegerExpression(Num(23))

\* C2: a '/' of two exact operands whose divisor is zero raises an error,
\* and no Ratio with denominator 0 is returned.
C2_ExactDivisionByZeroRaises ==
    /\ (/\ Ended
        /\ tree.type = "binary" /\ tree.operator = "/"
        /\ tree.left.type = "integer" /\ tree.right.type = "integer"
        /\ JIsZero(tree.right.value)) => pc = "failed"
    /\ (pc = "done" /\ result.type = "ratio") => ~JIsZero(result.denominator)

\* C3: every Ratio evaluate returns is in lowest terms with a denominator
\* of at least 2 and a numerator other than 0.
C3_ReturnedRatioReduced ==
    (pc = "done" /\ result.type = "ratio") =>
        /\ ReducedRatio(result)
        /\ result.denominator.n # 1
        /\ result.numerator.n # 0

\* C4: binary + - * / on integer literals returns an Integer or a Ratio in
\* lowest terms, never a Float.
C4_IntegerArithmeticExact ==
    (pc = "done" /\ OnlyLiterals(tree, {}, {"+", "-", "*", "/"}) /\ ~HasFloat(tree)) =>
        /\ result.type # "float"
        /\ result.type = "integer" \/ ReducedRatio(result)

\* C5: an expression of numeric literals with + - * / ^ and unary minus in
\* which a Float literal occurs evaluates to a Float; '2/4' is the Ratio 1/2.
C5_FloatContagion ==
    /\ (/\ pc = "done"
        /\ OnlyLiterals(tree, {"~"}, {"+", "-", "*", "/", "^"})
        /\ HasFloat(tree)) => result.type = "float"
    /\ (pc = "done" /\ expression = <<"2", "/", "4">>) =>
          result = RatioExpression(Num(1), Num(2))

\* C5: '2/4.' has returned the Float 0.5.
C5_Witness ==
    /\ pc = "done"
    /\ expression = <<"2", "/", "4", ".">>
    /\ HasFloat(tree)
    /\ result = FloatExpression(Fin(1, 2))

\* C6: while tokenize has not failed, every character read that is not
\* whitespace is part of a token or of the token in progress: none is
\* silently discarded.
C6_NoCharacterDiscarded ==
    (pc = "tokenize" /\ lex.error = "") =>
        Cardinality({k \in 1..lex.i : ~isWhitespace(expression[k])})
            = TokenCharacters(lex.tokens, Len(lex.tokens))
              + (IF lex.state = "NONE" THEN 0 ELSE Len(lex.current))

\* C7: when some '(' of the input has no matching ')', parse fails: it
\* returns no tree.
C7_UnmatchedOpenRejected ==
    (/\ pc \notin {"tokenize", "shunt", "build"}
     /\ lex.error = ""
     /\ OpenParentheses(lex.tokens, Len(lex.tokens)) > 0) => ~Parsed

\* C8: parse returns a fully built tree or fails: no tree it returns has a
\* missing child.
C8_NoMissingChild == Parsed => FullyBuilt(tree)

\* C9: the factorial of a negative Integer, of a Ratio or of a Float raises
\* an error, and the factorial of an Integer n >= 0 is Integer(n!).
C9_FactorialDomain ==
    (Ended /\ tree.type = "unary" /\ tree.operator = "!" /\ FullyBuilt(tree)) =>
        LET operand == evaluate(tree.operand, mode, variables)
        IN  CASE isInteger(operand) /\ IsFin(operand.value) /\ operand.value.n >= 0 ->
                    /\ pc = "done"
                    /\ result = IntegerExpression(Num(Factorial(operand.value.n)))
              [] isNumeric(operand) -> pc = "failed"
              [] OTHER -> TRUE

\* C10: sum and diff raise an error when their second argument is not a
\* Variable.
C10_IdentifierMustBeVariable ==
    (/\ Ended
     /\ tree.type = "functionCall"
     /\ tree.func.identifier.text \in {"sum", "diff"}
     /\ tree.args[2].type # "variable") => pc = "failed"

\* C11: a Variable whose name is a key of the environment (the caller's
\* variables over pi and e) evaluates to the evaluation of its binding; one
\* whose name is no key is returned unchanged, without an error.
C11_VariableLookup ==
    (Ended /\ tree.type = "variable") =>
        LET environment == Spread(defaultVariables, variables)
        IN  IF tree.name \in DOMAIN environment
            THEN result = evaluate(environment[tree.name], mode, variables)
            ELSE pc = "done" /\ result = tree

\* The text sum(x^2,x,1,3).
SumOfSquaresText ==
    <<"s", "u", "m", "(", "x", "^", "2", ",", "x", ",", "1", ",", "3", ")">>

\* The left fold of the sum of expr for name from i to last onto acc: each
\* term is evaluated with name bound to Integer(i) over the caller's
\* variables, each addition under the caller's variables alone.
RECURSIVE SumFold(_, _, _, _, _)
SumFold(expr, name, i, last, acc) ==
    IF i > last THEN acc
    ELSE LET term == evaluate(expr, mode,
                              Spread(variables, name :> IntegerExpression(Num(i))))
             added == evaluate(BinaryExpression(acc, term, "+"), mode, variables)
         IN  IF IsAbrupt(term) THEN term
             ELSE IF IsAbrupt(added) THEN added
             ELSE SumFold(expr, name, i + 1, last, added)

C13_SymbolicNumericCallReturns ==
    (/\ Ended
     /\ tree.type = "functionCall"
     /\ tree.func.identifier.text
            \in {"ln", "log", "min", "max", "asin", "acos", "atan", "atan2"}
     /\ FullyBuilt(tree)) =>
        LET name == tree.func.identifier.text
            evaluatedArgs ==
                [k \in DOMAIN tree.args |-> evaluate(tree.args[k], mode, variables)]
        IN  (/\ \A k \in DOMAIN evaluatedArgs : ~IsAbrupt(evaluatedArgs[k])
             /\ \E k \in DOMAIN evaluatedArgs : ~isNumeric(evaluatedArgs[k])) =>
                /\ pc = "done"
                /\ name \in {"ln", "log", "min", "max"} =>
                      result = FunctionCallExpression(
                                  FunctionCallToken(IdentifierToken(name, -1),
                                                    Num(Len(evaluatedArgs))),
                                  evaluatedArgs)

\* C14: diff of a subtree without a variable, that is a numeric literal or
\* an expression of + - * / ^ over numeric literals, evaluates to 0.
C14_DiffOfConstantIsZero ==
    (/\ Ended
     /\ tree.type = "functionCall"
     /\ tree.func.identifier.text = "diff"
     /\ tree.args[2].type = "variable"
     /\ OnlyLiterals(tree.args[1], {}, {"+", "-", "*", "/", "^"})) =>
        pc = "done" /\ isNumeric(result) /\ isZero(result)

\* The rewriting D of the differentiation, by v, of a tree of literals,
\* variables and the five binary operators.
RECURSIVE D(_, _)
D(u, v) ==
    CASE u.type \in {"integer", "float", "ratio"} -> IntegerExpression(Num(0))
      [] u.type = "variable" -> IF u.name = v THEN IntegerExpression(Num(1)) ELSE u
      [] u.operator \in {"+", "-"} ->
            BinaryExpression(D(u.left, v), D(u.right, v), u.operator)
      [] u.operator = "*" ->
            BinaryExpression(BinaryExpression(u.left, D(u.right, v), "*"),
                             BinaryExpression(u.right, D(u.left, v), "*"), "+")
      [] u.operator = "/" ->
            BinaryExpression(
                BinaryExpression(BinaryExpression(u.right, D(u.left, v), "*"),
                                 BinaryExpression(u.left, D(u.right, v), "*"), "-"),
                BinaryExpression(u.right, u.right, "*"), "/")
      [] u.operator = "^" ->
            BinaryExpression(u.right,
                BinaryExpression(u.left,
                    BinaryExpression(u.right, IntegerExpression(Num(1)), "-"), "^"),
                "*")

\* A tree of literals, variables and + - * / ^.
RECURSIVE Differentiable(_)
Differentiable(node) ==
    CASE node.type \in {"integer", "float", "ratio", "variable"} -> TRUE
      [] node.type = "binary" ->
            /\ node.operator \in {"+", "-", "*", "/", "^"}
            /\ Differentiable(node.left)
            /\ Differentiable(node.right)
      [] OTHER -> FALSE

\* The call diff(body, v) with a variable v and a differentiable body has
\* ended.
DiffCallEnded ==
    /\ Ended
    /\ tree.type = "functionCall"
    /\ tree.func.identifier.text = "diff"
    /\ tree.args[2].type = "variable"
    /\ Differentiable(tree.args[1])

DiffTestText ==
    <<"d", "i", "f", "f", "(", "x", "^", "3", "+", "2", "*", "x", ",", " ", "x", ")">>

\* C15: diff(u, v) is the evaluation of the rewritten tree D(u, v), with
\* D(v) = 1, D(y) = y for another variable, the sum, difference, product and
\* quotient rules and D(u^w) = w*u^(w-1); diff(x^n, x) for an integer n >= 1
\* is the evaluation of n*x^(n-1), and diff(x^3+2*x, x) with x unbound prints
\* as ((3*(x^2))+2).
C15_DiffRewrites ==
    DiffCallEnded =>
        LET u == tree.args[1]
            v == tree.args[2].name
        IN  /\ result = evaluate(D(u, v), mode, variables)
            /\ (/\ u.type = "binary"
                /\ u.operator = "^"
                /\ u.left = VariableExpression(v)
                /\ u.right.type = "integer"
                /\ u.right.value.n >= 1) =>
                    result = evaluate(
                        BinaryExpression(u.right,
                            BinaryExpression(u.left,
                                IntegerExpression(Num(u.right.value.n - 1)), "^"),
                            "*"),
                        mode, variables)
            /\ (expression = DiffTestText /\ variables = NoVariables) =>
                    pc = "done" /\ toString(result) = "((3*(x^2))+2)"

\* C15 witness: diff(x^3+2*x, x) has returned a tree that prints as
\* ((3*(x^2))+2).
C15_Witness ==
    /\ DiffCallEnded
    /\ expression = DiffTestText
    /\ variables = NoVariables
    /\ pc = "done"
    /\ toString(result) = "((3*(x^2))+2)"

\* A numeric node whose digits the model computes, and reads back exactly.
Printable(this) ==
    /\ \A k \in DOMAIN NumericToString(this) : NumericToString(this)[k] # "#"
    /\ Len(NumericToString(this)) <= MaxMantissa + 1

\* C16: when a text of literals and operators evaluates to a numeric result
\* r, the text r.toString() evaluates again to a numeric result of the same
\* value.
C16_PrintedResultReparses ==
    (/\ pc = "done"
     /\ OnlyLiterals(tree, {"~", "!"}, {"+", "-", "*", "/", "^"})
     /\ isNumeric(result)
     /\ Printable(result)) =>
        LET reparsed == parse(NumericToString(result))
        IN  /\ ~IsAbrupt(reparsed)
            /\ LET again == evaluate(reparsed, mode, variables)
               IN  /\ isNumeric(again)
                   /\ JEq(asFloat(again), asFloat(result))

FrameText == <<"s", "u", "m", "(", "x", ",", "x", ",", "1", ",", "2", ")", "+", "x">>

\* The operands of a binary operator are evaluated each under the caller's
\* bindings, whatever a call of sum or diff in the other operand has bound.
OperandsSeeCallerBindings ==
    (/\ Ended
     /\ tree.type = "binary"
     /\ FullyBuilt(tree)
     /\ "functionCall" \in {tree.left.type, tree.right.type}) =>
        LET l == evaluate(tree.left, mode, variables)
            r == evaluate(tree.right, mode, variables)
        IN  result = IF IsAbrupt(l) THEN l
                     ELSE IF IsAbrupt(r) THEN r
                     ELSE evaluate(BinaryExpression(l, r, tree.operator), mode, variables)

TrigNames == {"sin", "cos", "tan", "asin", "acos", "atan", "atan2"}

\* No call of a trig function in the tree, the arguments of calls included.
RECURSIVE NoTrig(_)
NoTrig(node) ==
    CASE node.type = "unary" -> NoTrig(node.operand)
      [] node.type = "binary" -> NoTrig(node.left) /\ NoTrig(node.right)
      [] node.type = "functionCall" ->
            /\ node.func.identifier.text \notin TrigNames
            /\ \A k \in DOMAIN node.args : NoTrig(node.args[k])
      [] OTHER -> TRUE

OtherMode(m) == IF m = "Radians" THEN "Degrees" ELSE "Radians"

\* C18: an expression without a call of sin, cos, tan, asin, acos, atan or
\* atan2, under bindings without one, evaluates to the same result in
\* Radians and in Degrees.
C18_ModeOnlyInTrig ==
    (/\ Ended
     /\ Parsed
     /\ NoTrig(tree)
     /\ \A name \in DOMAIN variables : NoTrig(variables[name])) =>
        result = evaluate(tree, OtherMode(mode), variables)

\* C18 witness: ln(1) has been evaluated in Degrees, to the Float 0 it has
\* in Radians.
C18_Witness ==
    /\ pc = "done"
    /\ mode = "Degrees"
    /\ expression = <<"l", "n", "(", "1", ")">>
    /\ NoTrig(tree)
    /\ result = FloatExpression(Num(0))
    /\ result = evaluate(tree, "Radians", variables)

\* The name before the first parenthesis of a text name(...).
CallName(cs) == Str(SubSeq(cs, 1, FirstIn(cs, {"("}) - 1))

\* The commas of cs from k on that lie inside depth open parentheses only.
RECURSIVE TopLevelCommas(_, _, _)
TopLevelCommas(cs, k, depth) ==
    IF k > Len(cs) THEN 0
    ELSE CASE cs[k] = "(" -> TopLevelCommas(cs, k + 1, depth + 1)
           [] cs[k] = ")" -> TopLevelCommas(cs, k + 1, depth - 1)
           [] cs[k] = "," /\ depth = 1 -> 1 + TopLevelCommas(cs, k + 1, depth)
           [] OTHER -> TopLevelCommas(cs, k + 1, depth)

\* The number of arguments written in a text name(...).
CallCount(cs) ==
    LET open == FirstIn(cs, {"("})
    IN  IF cs[open + 1] = ")" THEN 0 ELSE TopLevelCommas(cs, open + 1, 1) + 1

\* Every call node of the tree names a built-in function and has a number of
\* arguments within its arity.
RECURSIVE CallsWithinArity(_)
CallsWithinArity(node) ==
    CASE node.type = "unary" -> CallsWithinArity(node.operand)
      [] node.type = "binary" -> CallsWithinArity(node.left) /\ CallsWithinArity(node.right)
      [] node.type = "functionCall" ->
            /\ node.func.identifier.text \in DOMAIN FunctionArity
            /\ Len(node.args) = FunctionArity[node.func.identifier.text]
            /\ \A k \in DOMAIN node.args : CallsWithinArity(node.args[k])
      [] OTHER -> TRUE

\* C19: a call name(a1,...,an) parses only if name is a built-in function
\* and n, the top-level commas plus one or 0 for name(), is within its
\* arity, nested calls counted on their own; any other call fails with the
\* unknown-function or the arity error.
C19_CallArityChecked ==
    (expression \in ArityTexts /\ pc \notin {"tokenize", "shunt", "build"}) =>
        LET name == CallName(expression)
            n == CallCount(expression)
            allowed == name \in DOMAIN FunctionArity /\ n = FunctionArity[name]
        IN  /\ Parsed => (allowed /\ CallsWithinArity(tree)
                          /\ tree.type = "functionCall" /\ Len(tree.args) = n)
            /\ ~allowed =>
                    /\ pc = "failed"
                    /\ error \in {"function not found",
                                  "function requires between min and max arguments"}

\* An operand token: a number, an identifier or a closing parenthesis.
IsOperandToken(t) ==
    \/ t.type \in {"integer", "float", "identifier"}
    \/ t.type = "punctuation" /\ t.text = ")"

\* A token after which an operand is due: an infix operator, an opening
\* parenthesis or a comma.
ExpectsOperand(t) ==
    \/ t.type = "operator" /\ t.text \in {"+", "-", "*", "/", "^"}
    \/ t.type = "punctuation" /\ t.text \in {"(", ","}

\* An operand token precedes token k with no infix operator, opening
\* parenthesis or comma in between.
OperandBefore(tokens, k) ==
    \E j \in 1..(k - 1) :
        /\ IsOperandToken(tokens[j])
        /\ \A i \in (j + 1)..(k - 1) : ~ExpectsOperand(tokens[i])

\* C20: every minus the lexer emits is the unary ~ exactly when no operand
\* token has been emitted since the start or since the last infix operator,
\* opening parenthesis or comma; -3+4, 3-4 and 3*-4 parse to
\* Binary(Unary(~,3),4,+), Binary(3,4,-) and Binary(3,Unary(~,4),*).
C20_MinusUnaryWithoutOperand ==
    /\ \A k \in DOMAIN lex.tokens :
          (lex.tokens[k].type = "operator" /\ lex.tokens[k].text \in {"-", "~"}) =>
              (lex.tokens[k].text = "~" <=> ~OperandBefore(lex.tokens, k))
    /\ (pc \notin {"tokenize", "shunt", "build"} /\ expression = <<"-", "3", "+", "4">>) =>
          tree = BinaryExpression(
                    UnaryExpression(IntegerExpression(Num(3)), "~"),
                    IntegerExpression(Num(4)), "+")
    /\ (pc \notin {"tokenize", "shunt", "build"} /\ expression = <<"3", "-", "4">>) =>
          tree = BinaryExpression(IntegerExpression(Num(3)), IntegerExpression(Num(4)), "-")
    /\ (pc \notin {"tokenize", "shunt", "build"} /\ expression = <<"3", "*", "-", "4">>) =>
          tree = BinaryExpression(
                    IntegerExpression(Num(3)),
                    UnaryExpression(IntegerExpression(Num(4)), "~"), "*")

\* C20 witness: 3*-4 has been parsed, its minus lexed as the unary ~ after
\* the infix *.
C20_Witness ==
    /\ expression = <<"3", "*", "-", "4">>
    /\ Parsed
    /\ Len(lex.tokens) = 4
    /\ lex.tokens[3].text = "~"
    /\ ~OperandBefore(lex.tokens, 3)
    /\ tree.type = "binary" /\ tree.right.type = "unary"

\* A text of digits only: ^\d+$.
OnlyDigits(cs) ==
    cs # <<>> /\ \A k \in DOMAIN cs :
                    cs[k] \in {"0", "1", "2", "3", "4", "5", "6", "7", "8", "9"}

\* Every number token a step of the lexer emits is an Integer token when the
\* text collected for it is of digits only, and a Float token otherwise.
NumberTokenByText ==
    \A k \in (Len(lex.tokens) + 1)..Len(lex'.tokens) :
        lex'.tokens[k].type \in {"integer", "float"} =>
            (lex'.tokens[k].type = "integer" <=> OnlyDigits(lex.current))

\* The literals 123, 123., 123.456 and 1e3 parse to Integer 123 and to the
\* Floats 123, 123.456 and 1000.
NumberLiteralNodes ==
    Parsed =>
        /\ expression = <<"1", "2", "3">> => tree = IntegerExpression(Num(123))
        /\ expression = <<"1", "2", "3", ".">> => tree = FloatExpression(Num(123))
        /\ expression = <<"1", "2", "3", ".", "4", "5", "6">> =>
              tree = FloatExpression(Fin(123456, 1000))
        /\ expression = <<"1", "e", "3">> => tree = FloatExpression(Num(1000))
        /\ (Len(lex.tokens) = 1 /\ lex.tokens[1].type \in {"integer", "float"}) =>
              tree.type = lex.tokens[1].type

\* C21: a number literal of digits only becomes an Integer node, every
\* other number literal a Float node: 123 is Integer; 123., 123.456 and 1e3
\* are Float.
C21_IntegerOrFloatLiteral ==
    /\ []NumberLiteralNodes
    /\ [][NumberTokenByText]_vars

\* C21 witness: 123. has been parsed to the Float 123.
C21_Witness ==
    /\ Parsed
    /\ expression = <<"1", "2", "3", ".">>
    /\ lex.tokens[1].type = "float"
    /\ tree = FloatExpression(Num(123))

\* A well-formed number: digits with at most one decimal point and at least
\* one digit, then possibly e or E, an optional sign and at least one digit.
WellFormedNumber(cs) ==
    LET ePos == FirstIn(cs, {"e", "E"})
        mantissa == SubSeq(cs, 1, ePos - 1)
        rest == SubSeq(cs, ePos + 1, Len(cs))
        digits == IF rest # <<>> /\ rest[1] \in {"+", "-"} THEN Tail(rest) ELSE rest
    IN  /\ \A k \in DOMAIN mantissa : isDigit(mantissa[k]) \/ mantissa[k] = "."
        /\ Cardinality({k \in DOMAIN mantissa : mantissa[k] = "."}) <= 1
        /\ \E k \in DOMAIN mantissa : isDigit(mantissa[k])
        /\ ePos <= Len(cs) => OnlyDigits(digits)

MalformedNumberTexts ==
    {<<"1", ".", "2", ".", "3">>, <<"1", "e", "5", ".", "2">>, <<".">>,
     <<"1", "e">>, <<"1", "e", "+">>, <<"1", "e", "-", "-", "5">>}

\* Every number token a step of the lexer emits has a well-formed text.
NumberTokenWellFormed ==
    \A k \in (Len(lex.tokens) + 1)..Len(lex'.tokens) :
        lex'.tokens[k].type \in {"integer", "float"} => WellFormedNumber(lex.current)

\* C22: the lexer emits no number token for a malformed number, and fails
\* on 1.2.3, 1e5.2, a lone ., 1e, 1e+ and 1e--5.
C22_MalformedNumberRejected ==
    /\ [][NumberTokenWellFormed]_vars
    /\ []((expression \in MalformedNumberTexts /\ pc # "tokenize") =>
            (pc = "failed" /\ lex.error # ""))

IsZero(e) == isNumeric(e) /\ JEq(asFloat(e), Num(0))
IsOne(e) == isNumeric(e) /\ JEq(asFloat(e), Num(1))

\* The table of identities of the binary operators on evaluated operands l
\* and r of which one is not numeric.
IdentityTable(op, l, r) ==
    CASE op = "+" /\ IsZero(l) -> r
      [] op = "+" /\ IsZero(r) -> l
      [] op = "-" /\ IsZero(r) -> l
      [] op = "*" /\ IsOne(l) -> r
      [] op = "*" /\ IsOne(r) -> l
      [] op = "*" /\ (IsZero(l) \/ IsZero(r)) -> IntegerExpression(Num(0))
      [] op = "/" /\ IsOne(r) -> l
      [] op = "/" /\ IsZero(r) -> Thrown("Division by zero")
      [] op = "/" /\ IsZero(l) -> IntegerExpression(Num(0))
      [] op = "^" /\ IsZero(r) -> IntegerExpression(Num(1))
      [] op = "^" /\ IsOne(r) -> l
      [] op = "^" /\ IsZero(l) -> IntegerExpression(Num(0))
      [] op = "^" /\ IsOne(l) -> IntegerExpression(Num(1))
      [] OTHER -> BinaryExpression(l, r, op)

\* The evaluation of a binary node has ended, one evaluated operand at least
\* being no number.
SymbolicBinaryEnded ==
    /\ Ended
    /\ tree.type = "binary"
    /\ FullyBuilt(tree)
    /\ ~IsAbrupt(evaluate(tree.left, mode, variables))
    /\ ~IsAbrupt(evaluate(tree.right, mode, variables))
    /\ \/ ~isNumeric(evaluate(tree.left, mode, variables))
       \/ ~isNumeric(evaluate(tree.right, mode, variables))

RECURSIVE NoUnary(_)
NoUnary(node) ==
    CASE node.type = "unary" -> FALSE
      [] node.type = "binary" -> NoUnary(node.left) /\ NoUnary(node.right)
      [] node.type = "functionCall" -> \A k \in DOMAIN node.args : NoUnary(node.args[k])
      [] OTHER -> TRUE

CommaOutsideCall ==
    /\ pc = "shunt"
    /\ shunt.i < Len(lex.tokens)
    /\ lex.tokens[shunt.i + 1].type = "punctuation"
    /\ lex.tokens[shunt.i + 1].text = ","
    /\ \A k \in DOMAIN shunt.opStack : shunt.opStack[k].type # "identifier"

\* C25: a comma outside the argument list of a call makes parse fail with
\* the mismatched-parentheses error.
C25_CommaOutsideCallRejected ==
    [][CommaOutsideCall => (pc' = "failed" /\ error' = "Mismatched parentheses")]_vars

\* The environment without its binding of pi.
WithoutPi(vs) == [name \in DOMAIN vs \ {"pi"} |-> vs[name]]

\* C26: a trig call without variables evaluates to the same result whether
\* or not the caller's environment binds the name pi: the Degrees factor is
\* the constant pi/180, or 180/pi.
C26_DegreesFactorConstant ==
    (/\ Ended
     /\ tree.type = "functionCall"
     /\ tree.func.identifier.text \in TrigNames
     /\ \A k \in DOMAIN tree.args :
           OnlyLiterals(tree.args[k], {"~", "!"}, {"+", "-", "*", "/", "^"})) =>
        result = evaluate(tree, mode, WithoutPi(variables))

\* The function markers on the operator stack.
Markers(opStack) == {k \in DOMAIN opStack : opStack[k].type = "identifier"}

\* What one turn of the token loop does to the argument-count stack: a '('
\* after an identifier pushes 0, a ',' adds one to the top entry, a ')' that
\* closes a call pops the top entry, and nothing else touches the stack; no
\* pop happens on the empty stack.
CountStackStep ==
    (pc = "shunt" /\ shunt.i < Len(lex.tokens) /\ pc' = "shunt") =>
        LET token == lex.tokens[shunt.i + 1]
            before == shunt.argCountStack
            after == shunt'.argCountStack
            closes == Cardinality(Markers(shunt'.opStack)) < Cardinality(Markers(shunt.opStack))
        IN  CASE token.type = "punctuation" /\ token.text = "(" ->
                    IF shunt.i >= 1 /\ lex.tokens[shunt.i].type = "identifier"
                    THEN after = Append(before, Num(0))
                    ELSE after = before
              [] token.type = "punctuation" /\ token.text = "," ->
                    /\ before # <<>>
                    /\ after = [before EXCEPT ![Len(before)] = JAdd(@, Num(1))]
              [] token.type = "punctuation" /\ token.text = ")" /\ closes ->
                    /\ before # <<>>
                    /\ after = SubSeq(before, 1, Len(before) - 1)
              [] OTHER -> after = before

\* C27: at every step of the shunter, the final loop included, the
\* argument-count stack holds one entry per function marker on the operator
\* stack; a comma increments the entry of the innermost open call only, a
\* ')' that closes a call pops that entry, and no pop happens on the empty
\* stack.
C27_CountPerOpenCall ==
    /\ [](Len(shunt.argCountStack) = Cardinality(Markers(shunt.opStack)))
    /\ [][CountStackStep]_vars

\* C28: evaluation is idempotent: an expression evaluate returns evaluates,
\* under the same mode and environment, to itself.
C28_EvaluateIdempotent ==
    pc = "done" => evaluate(result, mode, variables) = result

\* No function call in the tree.
RECURSIVE NoCalls(_)
NoCalls(node) ==
    CASE node.type = "unary" -> NoCalls(node.operand)
      [] node.type = "binary" -> NoCalls(node.left) /\ NoCalls(node.right)
      [] node.type = "functionCall" -> FALSE
      [] OTHER -> TRUE

\* The variables of a tree.
RECURSIVE Names(_)
Names(node) ==
    CASE node.type = "variable" -> {node.name}
      [] node.type = "unary" -> Names(node.operand)
      [] node.type = "binary" -> Names(node.left) \cup Names(node.right)
      [] node.type = "functionCall" -> UNION {Names(node.args[k]) : k \in DOMAIN node.args}
      [] OTHER -> {}

\* The variables a binding mentions, directly or through at most depth
\* other bindings.
RECURSIVE Mentions(_, _, _)
Mentions(vs, names, depth) ==
    IF depth = 0 THEN names
    ELSE Mentions(vs,
                  names \cup UNION {Names(vs[n]) : n \in names \cap DOMAIN vs},
                  depth - 1)

Acyclic(vs) ==
    \A n \in DOMAIN vs : n \notin Mentions(vs, Names(vs[n]), Cardinality(DOMAIN vs))

\* C29: the evaluation of an expression of literals, variables and operators
\* under acyclic bindings terminates, with a value or an error: it neither
\* runs for ever nor exhausts the stack.
C29_EvaluateTerminates ==
    (/\ Ended
     /\ Parsed
     /\ FullyBuilt(tree)
     /\ NoCalls(tree)
     /\ Acyclic(variables)
     /\ \A n \in DOMAIN variables : NoCalls(variables[n])) =>
        pc # "hung" /\ result # StackExhausted

\* C30: the text toString gives for a tree parse returns parses to a tree
\* equal to it; checked on the trees of numbers and operators, unary ~ and
\* postfix ! included.
C30_ToStringReparses ==
    (/\ Parsed
     /\ FullyBuilt(tree)
     /\ OnlyLiterals(tree, {"~", "!"}, {"+", "-", "*", "/", "^"})
     /\ \A k \in DOMAIN Characters(tree) : Characters(tree)[k] # "#") =>
        parse(Characters(tree)) = tree

=============================================================================
